---- MODULE Spec2Model ----
(***************************************************************************)
(* The image-analysis submission pipeline of the CrackDetection component: *)
(* handleAnalyze creates a record in the crackImages collection, uploads   *)
(* the selected file, requests an inference pass and reconciles the result *)
(* back into the record, while the component's state (status, progress,    *)
(* error, analysisResult) follows every stage.                             *)
(*                                                                         *)
(* Every await of handleAnalyze is a step of its own: between two awaits   *)
(* the JavaScript runs to completion, and at an await any other handler    *)
(* (handleFileChange, resetState, another handleAnalyze) may run.          *)
(* The collaborators (record store, blob storage, inference service) are   *)
(* the environment: each remote call draws its outcome from a small set.   *)
(***************************************************************************)
EXTENDS Integers, Sequences, FiniteSets, TLC

\* Number of handleAnalyze invocations explored.
MaxSubs == 2
\* Size, in bytes, of the non-empty file of the model.
MaxFileBytes == 2
\* Number of handleSubmit invocations explored.
MaxSubmits == 2
\* Number of handleUpload invocations explored.
MaxUploads == 2
\* Number of handleRunLocalModel invocations explored.
MaxRuns == 3
\* Number of requests the reference inference service serves.
MaxRequests == 3
\* Number of distinct analysis ids the service's clock and random suffix yield.
MaxAnalysisIds == 2

(***************************************************************************)
(* JSON values, tagged with their JavaScript type.                         *)
(***************************************************************************)
Undefined == [t |-> "undefined"]
Null == [t |-> "null"]
Str(s) == [t |-> "str", s |-> s]
Num(n) == [t |-> "num", n |-> n]
Arr(e) == [t |-> "arr", e |-> e]
Obj(f) == [t |-> "obj", f |-> f]
Bool(b) == [t |-> "bool", b |-> b]
EmptyObj == [t |-> "obj", f |-> [k \in {} |-> Null]]

\* o.k : a property read. Reading a property of a primitive or of an array
\* (for the keys used here) yields undefined; reading one of null throws,
\* which the callers decide before they read.
Get(o, k) ==
  IF o.t = "obj" /\ k \in DOMAIN o.f THEN o.f[k] ELSE Undefined

\* a ?? b
Coalesce(a, b) == IF a.t \in {"null", "undefined"} THEN b ELSE a

\* typeof v === 'string' ? v : null   and   typeof v === 'number' ? v : null
StringOrNull(v) == IF v.t = "str" THEN v ELSE Null
NumberOrNull(v) == IF v.t = "num" THEN v ELSE Null

\* Math.round(a / b * 100) for b > 0.
RoundPercent(a, b) == (200 * a + b) \div (2 * b)

(***************************************************************************)
(* Inputs.                                                                 *)
(***************************************************************************)
\* selectedFile === null
NoFile == [none |-> TRUE]
Files ==
  { [name |-> "wing-crack.jpg", size |-> MaxFileBytes, type |-> "image/jpeg"],
    [name |-> "empty.bin", size |-> 0, type |-> ""] }

\* The user prop of the component.
user == [uid |-> "user-42", email |-> Str("tech@example.org")]

\* An Error object: what a rejected remote call carries.
Err(m) == [isError |-> TRUE, message |-> m]

UploadErrors == { Err("storage/unknown") }
UrlErrors == { Err("storage/object-not-found") }
AddDocErrors == { Err("permission-denied") }
FetchErrors == { Err("Failed to fetch") }
\* updateDoc: the patch is applied and acknowledged, refused, or applied
\* with the acknowledgement lost (the record store is at-least-once).
PatchOutcomes == { "ok", "rejected", "applied-rejected" }
PatchError(o) ==
  IF o = "rejected" THEN Err("permission-denied") ELSE Err("deadline-exceeded")
Applied(o) == o \in { "ok", "applied-rejected" }

\* Bodies of a 2xx response.
WellFormedBody ==
  Obj([analysis |->
        Obj([id |-> Str("a1"),
             summary |-> Str("minor crack"),
             metrics |-> Obj([confidence |-> Num(82), score |-> Num(30)]),
             findings |-> Arr(<< Obj([area |-> Str("left wing"),
                                      severity |-> Str("low")]) >>)])])
\* text: "json" (the body parses to `body`) or "invalid" (json() rejects).
Response(ok, code, text, body) ==
  [ok |-> ok, status |-> code, text |-> text, body |-> body]
NoResponse == Response(FALSE, 0, "none", Undefined)
Responses ==
  { Response(TRUE, 200, "json", WellFormedBody),
    Response(TRUE, 200, "json", Null),
    Response(TRUE, 200, "invalid", Undefined),
    Response(FALSE, 503, "json", Obj([error |-> Str("service unavailable")])),
    Response(FALSE, 500, "invalid", Undefined) }

(***************************************************************************)
(* The shapes an inference response can have. An object literal is written *)
(* with every key it may carry; a key whose value is Undefined is absent.  *)
(***************************************************************************)
ObjOf(f) == Obj([k \in {j \in DOMAIN f : f[j].t # "undefined"} |-> f[k]])

\* A findings array with an element of every JSON type.
MixedFindings ==
  Arr(<< Obj([area |-> Str("left wing"), severity |-> Str("low"),
              count |-> Num(2), confidence |-> Num(90)]),
         Null,
         Num(3),
         Str("crack"),
         Bool(TRUE),
         Arr(<< >>),
         Obj([location |-> Str("tail"), probability |-> Num(55),
              count |-> Str("two"), label |-> Num(1)]),
         Obj([area |-> Num(4), label |-> Str("corrosion"),
              description |-> Str("surface"), confidence |-> Str("high")]) >>)

Analyses ==
  { ObjOf([id |-> id, summary |-> summary, metrics |-> metrics,
           confidence |-> top, score |-> top, overlayUrl |-> overlay,
           findings |-> findings]) :
      id \in { Undefined, Str("a1"), Num(7) },
      summary \in { Undefined, Str("minor crack") },
      metrics \in { Undefined, Str("n/a"),
                    Obj([confidence |-> Num(82), score |-> Num(30)]),
                    Obj([confidence |-> Str("82"), score |-> Null]) },
      top \in { Undefined, Num(64) },
      overlay \in { Undefined, Str("https://ai/overlay.png") },
      findings \in { Undefined, Str("none"), MixedFindings } }

Images ==
  { Undefined, Null,
    Obj([analysisId |-> Str("img-a1"), overlayUrl |-> Str("https://ai/image.png")]) }

OkBodies ==
  { Null, EmptyObj, Arr(<< >>), Num(5), Str("ok"), Bool(FALSE) }
  \cup { ObjOf([analysis |-> analysis, image |-> image]) :
           analysis \in Analyses \cup { Null, Str("done"), Num(0), Arr(<< >>) },
           image \in Images }
  \cup { Obj([result |-> WellFormedBody.f.analysis]),
         Obj([analysis |-> Null, result |-> WellFormedBody.f.analysis]) }

NotOkBodies ==
  { Obj([error |-> Str("service unavailable")]),
    Obj([error |-> Num(404)]),
    Obj([error |-> Null]),
    Obj([message |-> Str("overloaded")]),
    EmptyObj, Null, Str("bad gateway"), Arr(<< >>) }

ShapedResponses ==
  { Response(TRUE, 200, "json", body) : body \in OkBodies }
  \cup { Response(FALSE, code, "json", body) :
           code \in { 404, 503 }, body \in NotOkBodies }
  \cup { Response(TRUE, 200, "invalid", Undefined),
         Response(FALSE, 502, "invalid", Undefined) }

VARIABLES
  selectedFile,    \* useState: the chosen File, or NoFile
  status,          \* useState<UploadState>
  progress,        \* useState(0)
  statusMessage,   \* useState<string | null>
  analysisResult,  \* useState<AnalysisResult | null>
  error,           \* useState<string | null>
  crackImages,     \* the crackImages collection: document i has id DocId(i)
  subs,            \* one frame per handleAnalyze invocation
  calls,           \* history: the remote calls each invocation made, in order
  writes,          \* history: per document, the writes the store applied
  localPrediction,           \* useState<PredictResponse | null>
  localPredictionError,      \* useState<string | null>
  isLocalPredictionLoading,  \* useState(false)
  runs,            \* one frame per handleRunLocalModel invocation
  imageStore,      \* reference service: Map of image documents by id
  analysesStore,   \* reference service: Map of analysis documents by id
  replies,         \* history: the request bodies served and their replies
  documentsCollection,     \* Documents: the documents collection of the store
  uploads,                 \* Documents: one frame per handleUpload invocation
  documentFile,            \* Documents: useState selectedFile
  newDocumentTitle,        \* Documents: useState('')
  newDocumentType,         \* Documents: useState('Catalog')
  newDocumentDescription,  \* Documents: useState('')
  isUploading,             \* Documents: useState(false)
  uploadProgress,          \* Documents: useState<number | null>(null)
  uploadMessage,           \* Documents: useState<string | null>(null)
  uploadError,             \* Documents: useState<string | null>(null)
  formError,               \* Documents: useState<string | null>(null)
  userProfileDoc,  \* AuthGate: the users/{uid} document of the store
  account,         \* AuthGate: whether the auth backend holds the account
  authEvents,      \* AuthGate: auth state changes not yet delivered
  stage,           \* AuthGate: useState<AuthStage>('loading')
  gateUser,        \* AuthGate: useState<User | null>(null)
  isRegistering,   \* AuthGate: useState(false)
  isSubmitting,    \* AuthGate: useState(false)
  authError,       \* AuthGate: useState<string | null>(null)
  email,           \* AuthGate: useState('')
  password,        \* AuthGate: useState('')
  profileFields,   \* AuthGate: useState<ProfileFields>
  submits,         \* AuthGate: one frame per handleSubmit invocation
  callbacks        \* AuthGate: one frame per onAuthStateChanged callback

ui == << selectedFile, status, progress, statusMessage, analysisResult, error >>
localModel ==
  << localPrediction, localPredictionError, isLocalPredictionLoading, runs >>
service == << imageStore, analysesStore, replies >>
documentsForm ==
  << documentFile, newDocumentTitle, newDocumentType, newDocumentDescription >>
documentsStatus ==
  << isUploading, uploadProgress, uploadMessage, uploadError, formError >>
documentsPage ==
  << documentsCollection, uploads, documentsForm, documentsStatus >>
authForm == << isRegistering, email, password, profileFields >>
authGate ==
  << userProfileDoc, account, authEvents, stage, gateUser, isSubmitting,
     authError, authForm, submits, callbacks >>
otherComponents == << service, documentsPage, authGate >>
vars ==
  << selectedFile, status, progress, statusMessage, analysisResult, error,
     crackImages, subs, calls, writes, localModel, otherComponents >>

(***************************************************************************)
(* The pure parts of handleAnalyze.                                        *)
(***************************************************************************)
ServerTimestamp == "serverTimestamp"

\* documentRef.id of the i-th document of the collection.
DocId(i) == "doc" \o ToString(i)

\* `users/${user.uid}/crack-images/${documentRef.id}/${selectedFile.name}`
StoragePath(id, file) ==
  "users/" \o user.uid \o "/crack-images/" \o id \o "/" \o file.name

\* The URL getDownloadURL resolves to for an uploaded object.
DownloadUrl(storagePath) == "https://store/" \o storagePath

\* A guard that lets an invocation with no file through.
HasSelectedFileAlways(file) == TRUE

\* if (!selectedFile) { ...; return; }
HasSelectedFile(file) == file # NoFile

\* err instanceof Error ? err.message : 'Unable to process the selected image.'
CatchMessage(err) ==
  IF err.isError THEN err.message ELSE "Unable to process the selected image."

BaseDoc(file) ==
  [ fileName |-> file.name,
    fileSize |-> file.size,
    fileType |-> IF file.type = "" THEN "application/octet-stream" ELSE file.type,
    status |-> "uploading",
    uploadedBy |-> user.uid,
    uploadedByEmail |-> Coalesce(user.email, Null),
    createdAt |-> ServerTimestamp,
    updatedAt |-> ServerTimestamp ]

\* A patch to 'uploaded' that forgets the storage reference.
UploadedPatchWithoutRef(storagePath, downloadUrl) ==
  [ status |-> "uploaded",
    uploadedAt |-> ServerTimestamp,
    updatedAt |-> ServerTimestamp ]

UploadedPatch(storagePath, downloadUrl) ==
  [ storagePath |-> Str(storagePath),
    downloadUrl |-> Str(downloadUrl),
    status |-> "uploaded",
    uploadedAt |-> ServerTimestamp,
    updatedAt |-> ServerTimestamp ]

AnalyzingPatch ==
  [ status |-> "analyzing",
    analysisRequestedAt |-> ServerTimestamp,
    updatedAt |-> ServerTimestamp ]

\* A patch to 'completed' that brings the confidence into 0..1.
CompletedPatchClamped(result) ==
  [ status |-> "completed",
    analysisId |-> Coalesce(result.id, Null),
    overlayUrl |-> Coalesce(result.overlayUrl, Null),
    analysisConfidence |->
      IF result.confidence.t = "num" /\ result.confidence.n > 1
      THEN Num(1) ELSE Coalesce(result.confidence, Null),
    analysisScore |-> Coalesce(result.score, Null),
    analysisSummary |-> Coalesce(result.summary, Null),
    analysisCompletedAt |-> ServerTimestamp,
    updatedAt |-> ServerTimestamp,
    analysisError |-> Null ]

CompletedPatch(result) ==
  [ status |-> "completed",
    analysisId |-> Coalesce(result.id, Null),
    overlayUrl |-> Coalesce(result.overlayUrl, Null),
    analysisConfidence |-> Coalesce(result.confidence, Null),
    analysisScore |-> Coalesce(result.score, Null),
    analysisSummary |-> Coalesce(result.summary, Null),
    analysisCompletedAt |-> ServerTimestamp,
    updatedAt |-> ServerTimestamp,
    analysisError |-> Null ]

\* A patch to 'analysis-failed' that clears the storage reference.
FailedPatchClearingRef(message) ==
  [ status |-> "analysis-failed", analysisError |-> Str(message),
    storagePath |-> Null, downloadUrl |-> Null,
    updatedAt |-> ServerTimestamp ]

\* A patch to 'analysis-failed' that forgets the message.
FailedPatchWithoutError(message) ==
  [ status |-> "analysis-failed",
    updatedAt |-> ServerTimestamp ]

FailedPatch(message) ==
  [ status |-> "analysis-failed",
    analysisError |-> Str(message),
    updatedAt |-> ServerTimestamp ]

\* updateDoc's effect on a stored document: the patch's fields replace the
\* document's, every other field stays.
Merge(doc, patch) ==
  [ k \in DOMAIN doc \cup DOMAIN patch |->
      IF k \in DOMAIN patch THEN patch[k] ELSE doc[k] ]

\* await response.json().catch(() => ({}))
ParseBody(response) ==
  IF response.text = "json" THEN response.body ELSE EmptyObj

\* A message that never reads the body.
NotOkMessageGeneric(response) ==
  "Analysis failed with status " \o ToString(response.status)

\* typeof body?.error === 'string' ? body.error
\*   : `Analysis failed with status ${response.status}`
NotOkMessage(response) ==
  LET body == ParseBody(response)
      e == IF body.t \in {"null", "undefined"} THEN Undefined
           ELSE Get(body, "error")
  IN IF e.t = "str" THEN e.s
     ELSE "Analysis failed with status " \o ToString(response.status)

\* body.analysis, read from a null body, throws a TypeError.
NormalizeThrows(body) == body.t \in {"null", "undefined"}
NullBodyError == Err("Cannot read properties of null (reading 'analysis')")

\* !finding || typeof finding !== 'object'   is false
IsObjectLike(v) == v.t \in {"obj", "arr"}

\* A mapping that reads a finding's area from `location` alone.
MapFindingLocationOnly(record) ==
  [ area |-> StringOrNull(Get(record, "location")),
    label |-> StringOrNull(Get(record, "label")),
    severity |-> StringOrNull(Get(record, "severity")),
    count |-> NumberOrNull(Get(record, "count")),
    confidence |-> IF Get(record, "confidence").t = "num"
                   THEN Get(record, "confidence")
                   ELSE NumberOrNull(Get(record, "probability")),
    description |-> StringOrNull(Get(record, "description")) ]

\* Lines 235-248: the finding built from an element that is an object.
MapFinding(record) ==
  [ area |-> IF Get(record, "area").t = "str" THEN Get(record, "area")
             ELSE StringOrNull(Get(record, "location")),
    label |-> StringOrNull(Get(record, "label")),
    severity |-> StringOrNull(Get(record, "severity")),
    count |-> NumberOrNull(Get(record, "count")),
    confidence |-> IF Get(record, "confidence").t = "num"
                   THEN Get(record, "confidence")
                   ELSE NumberOrNull(Get(record, "probability")),
    description |-> StringOrNull(Get(record, "description")) ]

\* A mapping that drops the falsy elements only: if (!finding) return null.
MappedFindingsWithoutTypeCheck(rawFindings) ==
  LET mapped == [ i \in 1..Len(rawFindings) |->
                    IF rawFindings[i].t # "null"
                    THEN MapFinding(rawFindings[i]) ELSE Null ]
  IN SelectSeq(mapped, LAMBDA f : f # Null)

\* Lines 231-252: map, then filter out the nulls.
MappedFindings(rawFindings) ==
  LET mapped == [ i \in 1..Len(rawFindings) |->
                    IF IsObjectLike(rawFindings[i])
                    THEN MapFinding(rawFindings[i]) ELSE Null ]
  IN SelectSeq(mapped, LAMBDA f : f # Null)

\* Lines 222-280, for a body that is not null.
Normalize(body) ==
  LET analysis == Coalesce(Get(body, "analysis"),
                           Coalesce(Get(body, "result"), EmptyObj))
      image == Coalesce(Get(body, "image"), EmptyObj)
      metrics == Coalesce(Get(analysis, "metrics"), EmptyObj)
      rawFindings == IF Get(analysis, "findings").t = "arr"
                     THEN Get(analysis, "findings").e ELSE << >>
  IN [ id |-> Coalesce(StringOrNull(Get(analysis, "id")),
                       Coalesce(StringOrNull(Get(image, "analysisId")), Null)),
       summary |-> StringOrNull(Get(analysis, "summary")),
       confidence |-> IF Get(metrics, "confidence").t = "num"
                      THEN Get(metrics, "confidence")
                      ELSE NumberOrNull(Get(analysis, "confidence")),
       score |-> IF Get(metrics, "score").t = "num"
                 THEN Get(metrics, "score")
                 ELSE NumberOrNull(Get(analysis, "score")),
       overlayUrl |-> IF Get(analysis, "overlayUrl").t = "str"
                      THEN Get(analysis, "overlayUrl")
                      ELSE StringOrNull(Get(image, "overlayUrl")),
       findings |-> MappedFindings(rawFindings),
       raw |-> body ]

(***************************************************************************)
(* State.                                                                  *)
(***************************************************************************)
NoResult == Null
NoRequest == Null

\* A payload that names the file where the storage path belongs.
AnalysisRequestWithFileName(documentRef, downloadUrl, storagePath, file) ==
  [ imageId |-> DocId(documentRef), imageUrl |-> downloadUrl,
    storagePath |-> file.name, fileName |-> file.name,
    fileType |-> file.type, uploadedBy |-> user.uid ]

\* Lines 207-214: the payload of the inference request, JSON.stringify'd
\* into its body by requestImageAnalysis (line 106).
AnalysisRequest(documentRef, downloadUrl, storagePath, file) ==
  [ imageId |-> DocId(documentRef), imageUrl |-> downloadUrl,
    storagePath |-> storagePath, fileName |-> file.name,
    fileType |-> file.type, uploadedBy |-> user.uid ]

\* The frame of a handleAnalyze invocation: where it is suspended (pc) and
\* its locals. documentRef = 0 is the null documentRef. bytes is the
\* bytesTransferred of the last snapshot of its upload task while that task
\* runs. request is the body of the inference request once it is sent.
\* outcome is the state of the promise the invocation returned.
Frame(pc, file, outcome) ==
  [ pc |-> pc, file |-> file, documentRef |-> 0, storagePath |-> "",
    downloadUrl |-> "", bytes |-> 0, request |-> NoRequest,
    response |-> NoResponse, result |-> NoResult, message |-> "",
    outcome |-> outcome ]

Call(op, st, outcome) == [ op |-> op, status |-> st, outcome |-> outcome ]

InitLocalModel ==
  /\ localPrediction = Null
  /\ localPredictionError = Null
  /\ isLocalPredictionLoading = FALSE
  /\ runs = << >>

\* types.ts 90-100: imageStore holds image-1, analysesStore is empty.
InitService ==
  /\ imageStore =
       [ k \in {"image-1"} |->
           Obj([ id |-> Str(k),
                 originalUrl |-> Str("https://example.com/images/1.jpg"),
                 status |-> Str("pending") ]) ]
  /\ analysesStore = [ k \in {} |-> Null ]
  /\ replies = << >>

\* Documents.tsx 135-146, with an empty documents collection.
InitDocuments ==
  /\ documentsCollection = << >>
  /\ uploads = << >>
  /\ documentFile = NoFile
  /\ newDocumentTitle = ""
  /\ newDocumentType = "Catalog"
  /\ newDocumentDescription = ""
  /\ isUploading = FALSE
  /\ uploadProgress = Null
  /\ uploadMessage = Null
  /\ uploadError = Null
  /\ formError = Null

\* part_003 172-184, with no account yet; onAuthStateChanged first reports
\* the signed-out state.
NoUser == "none"
NoDoc == [ exists |-> FALSE ]
EmptyProfileFields == [ department |-> "", studentOrStaffId |-> "", role |-> "" ]
InitAuth ==
  /\ userProfileDoc = NoDoc
  /\ account = FALSE
  /\ authEvents = << NoUser >>
  /\ stage = "loading"
  /\ gateUser = NoUser
  /\ isRegistering = FALSE
  /\ isSubmitting = FALSE
  /\ authError = Null
  /\ email = ""
  /\ password = ""
  /\ profileFields = EmptyProfileFields
  /\ submits = << >>
  /\ callbacks = << >>

Init ==
  /\ selectedFile = NoFile
  /\ status = "idle"
  /\ progress = 0
  /\ statusMessage = Null
  /\ analysisResult = Null
  /\ error = Null
  /\ crackImages = << >>
  /\ subs = << >>
  /\ calls = << >>
  /\ writes = << >>
  /\ InitLocalModel
  /\ InitService
  /\ InitDocuments
  /\ InitAuth

Invocations == 1..Len(subs)
Logged(s, call) == calls' = [calls EXCEPT ![s] = Append(@, call)]

(***************************************************************************)
(* The component's synchronous handlers.                                   *)
(***************************************************************************)
\* handleFileChange: the event carries a file, or none (then it returns).
HandleFileChange(file) ==
  /\ IF file = NoFile
     THEN UNCHANGED << ui, localPrediction, localPredictionError,
                       isLocalPredictionLoading >>
     ELSE /\ selectedFile' = file
          /\ status' = "idle"
          /\ progress' = 0
          /\ statusMessage' = Null
          /\ analysisResult' = Null
          /\ error' = Null
          /\ localPrediction' = Null
          /\ localPredictionError' = Null
          /\ isLocalPredictionLoading' = FALSE
  /\ UNCHANGED << crackImages, subs, calls, writes, runs >>

\* The Clear Image button, which is rendered only when a file is selected
\* and the status is neither 'analyzing' nor 'uploading'.
ClearImageShown ==
  selectedFile # NoFile /\ status # "analyzing" /\ status # "uploading"

ResetState ==
  /\ ClearImageShown
  /\ selectedFile' = NoFile
  /\ status' = "idle"
  /\ progress' = 0
  /\ statusMessage' = Null
  /\ analysisResult' = Null
  /\ error' = Null
  /\ localPrediction' = Null
  /\ localPredictionError' = Null
  /\ isLocalPredictionLoading' = FALSE
  /\ UNCHANGED << crackImages, subs, calls, writes, runs >>

(***************************************************************************)
(* handleAnalyze, one action per await.                                    *)
(***************************************************************************)
\* Lines 165-175: up to the first await.
HandleAnalyze ==
  /\ Len(subs) < MaxSubs
  /\ IF ~HasSelectedFile(selectedFile)
     THEN /\ error' = Str("Please choose an inspection image before starting analysis.")
          /\ subs' = Append(subs, Frame("done", selectedFile, "resolved"))
          /\ UNCHANGED << status, statusMessage, progress >>
     ELSE /\ status' = "uploading"
          /\ statusMessage' = Str("Uploading imagery to secure storage...")
          /\ progress' = 0
          /\ error' = Null
          /\ subs' = Append(subs, Frame("addDoc", selectedFile, "pending"))
  /\ calls' = Append(calls, << >>)
  /\ UNCHANGED << selectedFile, analysisResult, crackImages, writes >>

\* A catch block that reports the message but leaves the status as it was.
CatchWithoutErrorStatus(s, err) ==
  LET message == CatchMessage(err) IN
  /\ error' = Str(message)
  /\ subs' = [subs EXCEPT ![s] =
       IF @.documentRef # 0
       THEN [@ EXCEPT !.pc = "updateFailed", !.message = message,
                      !.bytes = 0]
       ELSE [@ EXCEPT !.pc = "done", !.message = message, !.bytes = 0,
                      !.outcome = "resolved"]]
  /\ UNCHANGED << selectedFile, status, statusMessage, progress, analysisResult >>

\* A catch block that starts a failed upload again.
CatchRetryingUpload(s, err) ==
  LET message == CatchMessage(err) IN
  /\ error' = Str(message)
  /\ status' = "error"
  /\ statusMessage' = Null
  /\ subs' = [subs EXCEPT ![s] =
       IF @.pc = "upload"
       THEN [@ EXCEPT !.bytes = 0]
       ELSE IF @.documentRef # 0
       THEN [@ EXCEPT !.pc = "updateFailed", !.message = message,
                      !.bytes = 0]
       ELSE [@ EXCEPT !.pc = "done", !.message = message, !.bytes = 0,
                      !.outcome = "resolved"]]
  /\ UNCHANGED << selectedFile, progress, analysisResult >>

\* The catch block, lines 297-303: the state it sets, and whether the
\* failure patch follows.
Catch(s, err) ==
  LET message == CatchMessage(err) IN
  /\ error' = Str(message)
  /\ status' = "error"
  /\ statusMessage' = Null
  /\ subs' = [subs EXCEPT ![s] =
       IF @.documentRef # 0
       THEN [@ EXCEPT !.pc = "updateFailed", !.message = message,
                      !.bytes = 0]
       ELSE [@ EXCEPT !.pc = "done", !.message = message, !.bytes = 0,
                      !.outcome = "resolved"]]
  /\ UNCHANGED << selectedFile, progress, analysisResult >>

\* updateDoc(documentRef, patch) with outcome o, as the store sees it.
UpdateDoc(d, patch, o) ==
  IF Applied(o)
  THEN /\ crackImages' = [crackImages EXCEPT ![d] = Merge(@, patch)]
       /\ writes' = [writes EXCEPT ![d] = Append(@, patch)]
  ELSE UNCHANGED << crackImages, writes >>

\* Line 189: addDoc settles; line 191 runs with it.
AddDoc(s) ==
  /\ subs[s].pc = "addDoc"
  /\ \/ /\ crackImages' = Append(crackImages, BaseDoc(subs[s].file))
        /\ writes' = Append(writes, << BaseDoc(subs[s].file) >>)
        /\ subs' = [subs EXCEPT ![s].pc = "upload",
                     ![s].documentRef = Len(crackImages) + 1,
                     ![s].storagePath =
                        StoragePath(DocId(Len(crackImages) + 1), subs[s].file)]
        /\ Logged(s, Call("addDoc", "uploading", "ok"))
        /\ UNCHANGED ui
     \/ /\ \E err \in AddDocErrors : Catch(s, err)
        /\ Logged(s, Call("addDoc", "uploading", "rejected"))
        /\ UNCHANGED << crackImages, writes >>

\* The observer without its totalBytes > 0 guard: for a total of zero it
\* computes Math.round(0 / 0 * 100), which is NaN (here -1, outside every
\* percentage), and passes it to onProgress.
UploadProgressUnguarded(s) ==
  /\ subs[s].pc = "upload"
  /\ \E transferred \in 0 .. subs[s].file.size :
       /\ subs' = [subs EXCEPT ![s].bytes = transferred]
       /\ IF subs[s].file.size > 0
          THEN progress' = RoundPercent(transferred, subs[s].file.size)
          ELSE progress' = -1
  /\ UNCHANGED << selectedFile, status, statusMessage, analysisResult, error,
                  crackImages, calls, writes >>

\* Lines 79-84: a state_changed snapshot of the upload task. The task
\* reports the bytes of a chunk while it is sent and falls back to the
\* bytes the backend holds when the chunk has to be sent again, so
\* bytesTransferred is any value up to totalBytes.
UploadProgress(s) ==
  /\ subs[s].pc = "upload"
  /\ \E transferred \in 0 .. subs[s].file.size :
       /\ subs' = [subs EXCEPT ![s].bytes = transferred]
       /\ IF subs[s].file.size > 0
          THEN progress' = RoundPercent(transferred, subs[s].file.size)
          ELSE UNCHANGED progress
  /\ UNCHANGED << selectedFile, status, statusMessage, analysisResult, error,
                  crackImages, calls, writes >>

\* Lines 85-86 and 192: the upload task completes or fails.
UploadSettles(s) ==
  /\ subs[s].pc = "upload"
  /\ \/ /\ subs' = [subs EXCEPT ![s].pc = "getDownloadURL", ![s].bytes = 0]
        /\ Logged(s, Call("upload", "", "ok"))
        /\ UNCHANGED ui
     \/ /\ \E err \in UploadErrors : Catch(s, err)
        /\ Logged(s, Call("upload", "", "rejected"))
  /\ UNCHANGED << crackImages, writes >>

\* Line 193.
GetDownloadURL(s) ==
  /\ subs[s].pc = "getDownloadURL"
  /\ \/ /\ subs' = [subs EXCEPT ![s].pc = "updateUploaded",
                     ![s].downloadUrl = DownloadUrl(subs[s].storagePath)]
        /\ Logged(s, Call("getDownloadURL", "", "ok"))
        /\ UNCHANGED ui
     \/ /\ \E err \in UrlErrors : Catch(s, err)
        /\ Logged(s, Call("getDownloadURL", "", "rejected"))
  /\ UNCHANGED << crackImages, writes >>

\* Lines 195-205: the patch to 'uploaded' settles.
UpdateUploaded(s) ==
  /\ subs[s].pc = "updateUploaded"
  /\ \E o \in PatchOutcomes :
       /\ UpdateDoc(subs[s].documentRef,
                    UploadedPatch(subs[s].storagePath, subs[s].downloadUrl), o)
       /\ Logged(s, Call("updateDoc", "uploaded", o))
       /\ IF o = "ok"
          THEN /\ status' = "analyzing"
               /\ statusMessage' = Str("Running crack detection using the AI model...")
               /\ progress' = 100
               /\ subs' = [subs EXCEPT ![s].pc = "updateAnalyzing"]
               /\ UNCHANGED << selectedFile, analysisResult, error >>
          ELSE Catch(s, PatchError(o))

\* requestImageAnalysis without the await on its updateDoc: the request is
\* sent whatever becomes of the patch.
UpdateAnalyzingUnawaited(s) ==
  /\ subs[s].pc = "updateAnalyzing"
  /\ \E o \in PatchOutcomes :
       /\ UpdateDoc(subs[s].documentRef, AnalyzingPatch, o)
       /\ Logged(s, Call("updateDoc", "analyzing", o))
       /\ subs' = [subs EXCEPT ![s].pc = "fetch",
                    ![s].request =
                       AnalysisRequest(subs[s].documentRef, subs[s].downloadUrl,
                                       subs[s].storagePath, subs[s].file)]
       /\ UNCHANGED ui

\* Lines 95-107 of requestImageAnalysis: the patch to 'analyzing' settles;
\* once it is acknowledged the inference request is sent.
UpdateAnalyzing(s) ==
  /\ subs[s].pc = "updateAnalyzing"
  /\ \E o \in PatchOutcomes :
       /\ UpdateDoc(subs[s].documentRef, AnalyzingPatch, o)
       /\ Logged(s, Call("updateDoc", "analyzing", o))
       /\ IF o = "ok"
          THEN /\ subs' = [subs EXCEPT ![s].pc = "fetch",
                            ![s].request =
                               AnalysisRequest(subs[s].documentRef,
                                               subs[s].downloadUrl,
                                               subs[s].storagePath,
                                               subs[s].file)]
               /\ UNCHANGED ui
          ELSE Catch(s, PatchError(o))

\* Lines 101-109 and 207: fetch settles with one of the responses or with
\* a transport error.
FetchFrom(s, responses) ==
  /\ subs[s].pc = "fetch"
  /\ \/ /\ \E r \in responses :
             subs' = [subs EXCEPT ![s].pc = "json", ![s].response = r]
        /\ Logged(s, Call("fetch", "", "ok"))
        /\ UNCHANGED ui
     \/ /\ \E err \in FetchErrors : Catch(s, err)
        /\ Logged(s, Call("fetch", "", "rejected"))
  /\ UNCHANGED << crackImages, writes >>

Fetch(s) == FetchFrom(s, Responses)

\* Lines 216-280: response.json() settles; the error of a non-2xx response
\* is thrown, a 2xx body is normalized.
ResponseJson(s) ==
  LET r == subs[s].response
      body == ParseBody(r)
  IN
  /\ subs[s].pc = "json"
  /\ IF ~r.ok
     THEN Catch(s, Err(NotOkMessage(r)))
     ELSE IF NormalizeThrows(body)
     THEN Catch(s, NullBodyError)
     ELSE /\ subs' = [subs EXCEPT ![s].pc = "updateCompleted",
                                  ![s].result = Normalize(body)]
          /\ UNCHANGED ui
  /\ UNCHANGED << crackImages, calls, writes >>

\* A 'completed' patch after which the status is left as it was.
UpdateCompletedSilent(s) ==
  /\ subs[s].pc = "updateCompleted"
  /\ \E o \in PatchOutcomes :
       /\ UpdateDoc(subs[s].documentRef, CompletedPatch(subs[s].result), o)
       /\ Logged(s, Call("updateDoc", "completed", o))
       /\ IF o = "ok"
          THEN /\ analysisResult' = subs[s].result
               /\ subs' = [subs EXCEPT ![s].pc = "done",
                                       ![s].outcome = "resolved"]
               /\ UNCHANGED << selectedFile, status, statusMessage, progress,
                               error >>
          ELSE Catch(s, PatchError(o))

\* The success state set without regard to what became of the patch.
UpdateCompletedOptimistic(s) ==
  /\ subs[s].pc = "updateCompleted"
  /\ \E o \in PatchOutcomes :
       /\ UpdateDoc(subs[s].documentRef, CompletedPatch(subs[s].result), o)
       /\ Logged(s, Call("updateDoc", "completed", o))
       /\ analysisResult' = subs[s].result
       /\ status' = "success"
       /\ statusMessage' = Str("Analysis complete. Review the results below.")
       /\ subs' = [subs EXCEPT ![s].pc = "done", ![s].outcome = "resolved"]
       /\ UNCHANGED << selectedFile, progress, error >>

\* Lines 282-296: the patch to 'completed' settles.
UpdateCompleted(s) ==
  /\ subs[s].pc = "updateCompleted"
  /\ \E o \in PatchOutcomes :
       /\ UpdateDoc(subs[s].documentRef, CompletedPatch(subs[s].result), o)
       /\ Logged(s, Call("updateDoc", "completed", o))
       /\ IF o = "ok"
          THEN /\ analysisResult' = subs[s].result
               /\ status' = "success"
               /\ statusMessage' = Str("Analysis complete. Review the results below.")
               /\ subs' = [subs EXCEPT ![s].pc = "done",
                                       ![s].outcome = "resolved"]
               /\ UNCHANGED << selectedFile, progress, error >>
          ELSE Catch(s, PatchError(o))

\* Lines 303-310: the patch to 'analysis-failed' settles. Nothing catches
\* its rejection: the promise of handleAnalyze rejects with it.
UpdateFailed(s) ==
  /\ subs[s].pc = "updateFailed"
  /\ \E o \in PatchOutcomes :
       /\ UpdateDoc(subs[s].documentRef, FailedPatch(subs[s].message), o)
       /\ Logged(s, Call("updateDoc", "analysis-failed", o))
       /\ subs' = [subs EXCEPT ![s].pc = "done",
                     ![s].outcome = IF o = "ok" THEN "resolved" ELSE "rejected"]
  /\ UNCHANGED ui

Next ==
  \/ \E file \in Files \cup {NoFile} : HandleFileChange(file) /\ UNCHANGED otherComponents
  \/ ResetState /\ UNCHANGED otherComponents
  \/ HandleAnalyze /\ UNCHANGED << localModel, otherComponents >>
  \/ \E s \in Invocations : AddDoc(s)
                              /\ UNCHANGED << localModel, otherComponents >>
  \/ \E s \in Invocations : UploadProgress(s)
                              /\ UNCHANGED << localModel, otherComponents >>
  \/ \E s \in Invocations : UploadSettles(s)
                              /\ UNCHANGED << localModel, otherComponents >>
  \/ \E s \in Invocations : GetDownloadURL(s)
                              /\ UNCHANGED << localModel, otherComponents >>
  \/ \E s \in Invocations : UpdateUploaded(s)
                              /\ UNCHANGED << localModel, otherComponents >>
  \/ \E s \in Invocations : UpdateAnalyzing(s)
                              /\ UNCHANGED << localModel, otherComponents >>
  \/ \E s \in Invocations : Fetch(s)
                              /\ UNCHANGED << localModel, otherComponents >>
  \/ \E s \in Invocations : ResponseJson(s)
                              /\ UNCHANGED << localModel, otherComponents >>
  \/ \E s \in Invocations : UpdateCompleted(s)
                              /\ UNCHANGED << localModel, otherComponents >>
  \/ \E s \in Invocations : UpdateFailed(s)
                              /\ UNCHANGED << localModel, otherComponents >>

Spec == Init /\ [][Next]_vars

(***************************************************************************)
(* The inference stage on its own: one submission whose record has been    *)
(* patched to 'analyzing' and whose request is in flight, answered by a    *)
(* response of any shape.                                                  *)
(***************************************************************************)
InitInference ==
  \E file \in Files :
    LET storagePath == StoragePath(DocId(1), file)
        downloadUrl == DownloadUrl(storagePath)
        uploaded == UploadedPatch(storagePath, downloadUrl)
    IN
    /\ selectedFile = file
    /\ status = "analyzing"
    /\ progress = 100
    /\ statusMessage = Str("Running crack detection using the AI model...")
    /\ analysisResult = Null
    /\ error = Null
    /\ crackImages = << Merge(Merge(BaseDoc(file), uploaded), AnalyzingPatch) >>
    /\ subs = << [ Frame("fetch", file, "pending") EXCEPT
                     !.documentRef = 1, !.storagePath = storagePath,
                     !.downloadUrl = downloadUrl,
                     !.request = AnalysisRequest(1, downloadUrl, storagePath,
                                                 file) ] >>
    /\ calls = << << Call("addDoc", "uploading", "ok"),
                     Call("upload", "", "ok"),
                     Call("getDownloadURL", "", "ok"),
                     Call("updateDoc", "uploaded", "ok"),
                     Call("updateDoc", "analyzing", "ok") >> >>
    /\ writes = << << BaseDoc(file), uploaded, AnalyzingPatch >> >>
    /\ InitLocalModel
    /\ InitService
    /\ InitDocuments
    /\ InitAuth

FetchAnyShape(s) == FetchFrom(s, ShapedResponses)

NextInference ==
  \/ \E s \in Invocations : FetchAnyShape(s)
                              /\ UNCHANGED << localModel, otherComponents >>
  \/ \E s \in Invocations : ResponseJson(s)
                              /\ UNCHANGED << localModel, otherComponents >>
  \/ \E s \in Invocations : UpdateCompleted(s)
                              /\ UNCHANGED << localModel, otherComponents >>
  \/ \E s \in Invocations : UpdateFailed(s)
                              /\ UNCHANGED << localModel, otherComponents >>

SpecInference == InitInference /\ [][NextInference]_vars

(***************************************************************************)
(* What the claims speak of.                                               *)
(***************************************************************************)
Docs == 1..Len(crackImages)
Terminal == { "completed", "analysis-failed" }
ResultFields ==
  { "analysisId", "analysisConfidence", "analysisScore", "analysisSummary",
    "overlayUrl" }

\* The field is present in the document and is not null.
HasValue(doc, k) ==
  k \in DOMAIN doc /\ doc[k].t \notin {"null", "undefined"}
HasStorageRef(doc) == HasValue(doc, "storagePath") /\ HasValue(doc, "downloadUrl")
ResultWritten(doc) == ResultFields \cap DOMAIN doc # {}

\* The statuses persisted for document d, in the order the store applied them.
StatusLog(d) == [ i \in 1..Len(writes[d]) |-> writes[d][i].status ]

Settled(s) == subs[s].outcome # "pending"
CreatedRecord(s) == subs[s].documentRef # 0
RecordOf(s) == crackImages[subs[s].documentRef]

\* Call i of invocation s is a failure of the upload stage.
UploadStageFailure(s, i) ==
  LET c == calls[s][i] IN
  \/ c.op \in {"upload", "getDownloadURL"} /\ c.outcome = "rejected"
  \/ c.op = "updateDoc" /\ c.status = "uploaded" /\ c.outcome # "ok"

\* The inference call of invocation s failed: a transport error, or a
\* response that is not 2xx.
UploadedThenInferenceFailed(s) ==
  /\ \E i \in DOMAIN calls[s] :
       calls[s][i] = Call("updateDoc", "uploaded", "ok")
  /\ \E i \in DOMAIN calls[s] :
       /\ calls[s][i].op = "fetch"
       /\ \/ calls[s][i].outcome = "rejected"
          \/ ~subs[s].response.ok

(***************************************************************************)
(* C1. Whenever a submission that created a record has settled, the        *)
(* record's persisted status is 'completed' or 'analysis-failed'.          *)
(***************************************************************************)
C1_SettledRecordIsTerminal ==
  \A s \in Invocations :
    (Settled(s) /\ CreatedRecord(s)) => RecordOf(s).status \in Terminal

(***************************************************************************)
(* C2, as stated. The storage reference is non-null for every status       *)
(* other than 'uploading'.                                                 *)
(***************************************************************************)
C2_StorageRefUnlessUploading ==
  \A d \in Docs :
    crackImages[d].status # "uploading" => HasStorageRef(crackImages[d])

(***************************************************************************)
(* C2, amended. The storage reference is non-null for the statuses         *)
(* 'uploaded', 'analyzing' and 'completed'; for 'analysis-failed' it is    *)
(* non-null exactly when the patch to 'uploaded' was applied before the    *)
(* failure.                                                                *)
(***************************************************************************)
C2_StorageRefOnceUploaded ==
  \A d \in Docs :
    LET doc == crackImages[d] IN
    /\ doc.status \in {"uploaded", "analyzing", "completed"}
         => HasStorageRef(doc)
    /\ doc.status = "analysis-failed"
         => (HasStorageRef(doc)
               <=> \E i \in DOMAIN writes[d] : writes[d][i].status = "uploaded")

\* Two failed records, one whose upload stage failed and one that failed
\* after it.
C2_Witness ==
  /\ \E d \in Docs : /\ crackImages[d].status = "analysis-failed"
                     /\ ~HasStorageRef(crackImages[d])
  /\ \E d \in Docs : /\ crackImages[d].status = "analysis-failed"
                     /\ HasStorageRef(crackImages[d])

(***************************************************************************)
(* C3. The analysis result fields have been written if and only if the     *)
(* status is 'completed'.                                                  *)
(***************************************************************************)
C3_ResultIffCompleted ==
  \A d \in Docs :
    ResultWritten(crackImages[d]) <=> crackImages[d].status = "completed"

(***************************************************************************)
(* C4. analysisError is non-null if and only if the status is              *)
(* 'analysis-failed'; only the patch to 'analysis-failed' writes an error, *)
(* and the patch to 'completed' leaves it null.                            *)
(***************************************************************************)
C4_ErrorIffFailed ==
  \A d \in Docs :
    /\ HasValue(crackImages[d], "analysisError")
         <=> crackImages[d].status = "analysis-failed"
    /\ \A i \in DOMAIN writes[d] :
         HasValue(writes[d][i], "analysisError")
           => writes[d][i].status = "analysis-failed"

\* A failed record and a completed one.
C4_Witness ==
  /\ \E d \in Docs : /\ crackImages[d].status = "analysis-failed"
                     /\ HasValue(crackImages[d], "analysisError")
  /\ \E d \in Docs : /\ crackImages[d].status = "completed"
                     /\ ~HasValue(crackImages[d], "analysisError")

(***************************************************************************)
(* C5. The persisted statuses of a record start at 'uploading'; each next  *)
(* one is the immediate successor in uploading < uploaded < analyzing <    *)
(* completed, or is 'analysis-failed' reached from a non-terminal status.  *)
(***************************************************************************)
Successor(st) ==
  CASE st = "uploading" -> "uploaded"
    [] st = "uploaded" -> "analyzing"
    [] st = "analyzing" -> "completed"
    [] OTHER -> "none"

C5_StatusNeitherRegressesNorSkips ==
  \A d \in Docs :
    LET log == StatusLog(d) IN
    /\ log[1] = "uploading"
    /\ \A i \in 1..(Len(log) - 1) :
         \/ log[i + 1] = Successor(log[i])
         \/ log[i] \notin Terminal /\ log[i + 1] = "analysis-failed"

(***************************************************************************)
(* C6. Once a terminal status has been persisted for a record no later     *)
(* write changes the record's status, and no two invocations share a       *)
(* record.                                                                 *)
(***************************************************************************)
C6_TerminalIsFinal ==
  /\ \A d \in Docs :
       LET log == StatusLog(d) IN
       \A i, j \in DOMAIN log :
         (i < j /\ log[i] \in Terminal) => log[j] = log[i]
  /\ \A s1, s2 \in Invocations :
       (s1 # s2 /\ CreatedRecord(s1))
         => subs[s1].documentRef # subs[s2].documentRef

(***************************************************************************)
(* C7. The promise handleAnalyze returns never rejects.                    *)
(***************************************************************************)
C7_NeverRejects ==
  \A s \in Invocations : subs[s].outcome # "rejected"

C9_UploadFailureFailsRecord ==
  \A s \in Invocations :
    \A i \in DOMAIN calls[s] :
      (Settled(s) /\ UploadStageFailure(s, i)) =>
        /\ i + 1 \in DOMAIN calls[s]
        /\ calls[s][i + 1].op = "updateDoc"
        /\ calls[s][i + 1].status = "analysis-failed"
        /\ \A j \in DOMAIN calls[s] : calls[s][j].op # "fetch"
        /\ RecordOf(s).status = "analysis-failed"
        /\ RecordOf(s).analysisError = Str(subs[s].message)
        /\ ~ResultWritten(RecordOf(s))

(***************************************************************************)
(* C10. When the upload succeeded and the inference call of a settled      *)
(* submission failed, the record is 'analysis-failed' and holds the        *)
(* storagePath and downloadUrl the 'uploaded' patch wrote.                 *)
(***************************************************************************)
C10_InferenceFailureKeepsStorageRef ==
  \A s \in Invocations :
    (Settled(s) /\ UploadedThenInferenceFailed(s)) =>
      /\ RecordOf(s).status = "analysis-failed"
      /\ RecordOf(s).storagePath = Str(subs[s].storagePath)
      /\ RecordOf(s).downloadUrl = Str(subs[s].downloadUrl)

(***************************************************************************)
(* C11. When the inference response is not 2xx, the error the submission   *)
(* reports and persists is the body's 'error' when the body is a JSON      *)
(* object with a string 'error', and otherwise (no body, a body that does  *)
(* not parse, an 'error' that is not a string) the generic message that    *)
(* names the HTTP status.                                                  *)
(***************************************************************************)
C11_ErrorFromResponseBody ==
  \A s \in Invocations :
    LET r == subs[s].response
        named == /\ r.text = "json"
                 /\ r.body.t = "obj"
                 /\ "error" \in DOMAIN r.body.f
                 /\ r.body.f["error"].t = "str"
        expected == IF named THEN r.body.f["error"].s
                    ELSE "Analysis failed with status " \o ToString(r.status)
    IN (r # NoResponse /\ ~r.ok /\ subs[s].pc \in {"updateFailed", "done"}) =>
         /\ subs[s].message = expected
         /\ RecordOf(s).status = "analysis-failed" =>
              RecordOf(s).analysisError = Str(expected)

\* HTTP 503 with body {"error": "service unavailable"} ended as a record
\* 'analysis-failed' with that error.
C11_Witness ==
  \E s \in Invocations :
    /\ subs[s].response =
         Response(FALSE, 503, "json", Obj([error |-> Str("service unavailable")]))
    /\ subs[s].pc = "done"
    /\ RecordOf(s).status = "analysis-failed"
    /\ RecordOf(s).analysisError = Str("service unavailable")

(***************************************************************************)
(* C12. Whatever JSON value a 2xx response carries, normalization does not *)
(* throw: once the body has been read the submission holds a result whose  *)
(* scalar fields are each of their type or null, and it goes on to the     *)
(* 'completed' patch rather than to the failure patch.                     *)
(***************************************************************************)
C12_NormalizationIsTotal ==
  \A s \in Invocations :
    (subs[s].response.ok /\ subs[s].pc # "json") =>
      /\ subs[s].result # NoResult
      /\ subs[s].result.id.t \in {"str", "null"}
      /\ subs[s].result.summary.t \in {"str", "null"}
      /\ subs[s].result.overlayUrl.t \in {"str", "null"}
      /\ subs[s].result.confidence.t \in {"num", "null"}
      /\ subs[s].result.score.t \in {"num", "null"}
      /\ \/ subs[s].pc = "updateCompleted"
         \/ \E i \in DOMAIN calls[s] :
              calls[s][i].op = "updateDoc" /\ calls[s][i].status = "completed"

(***************************************************************************)
(* C13. Normalizing the serialized result of a first normalization.        *)
(***************************************************************************)
\* JSON.parse(JSON.stringify(result)): the AnalysisResult as a JSON value.
Serialize(result) ==
  Obj([ id |-> result.id, summary |-> result.summary,
        confidence |-> result.confidence, score |-> result.score,
        overlayUrl |-> result.overlayUrl,
        findings |-> Arr([ i \in 1..Len(result.findings) |->
                             Obj(result.findings[i]) ]),
        raw |-> result.raw ])

SameResult(a, b) ==
  /\ a.id = b.id
  /\ a.summary = b.summary
  /\ a.confidence = b.confidence
  /\ a.score = b.score
  /\ a.overlayUrl = b.overlayUrl
  /\ a.findings = b.findings

NoFields(a) ==
  /\ a.id = Null
  /\ a.summary = Null
  /\ a.confidence = Null
  /\ a.score = Null
  /\ a.overlayUrl = Null
  /\ a.findings = << >>

\* C13 as stated: the serialized result of a normalization, normalized
\* again as a payload, gives the same id, summary, confidence, score,
\* overlayUrl and findings.
C13_IdempotentOverOutput ==
  \A s \in Invocations :
    subs[s].result # NoResult =>
      SameResult(Normalize(Serialize(subs[s].result)), subs[s].result)

\* C13: what holds instead. The serialized result is reproduced when it is
\* the payload's `analysis` (or `result`) property, which is where
\* normalization reads its fields; as the payload itself it carries neither
\* property and normalizes to a result with every field null and no finding.
C13_IdempotentUnderAnalysisKey ==
  \A s \in Invocations :
    subs[s].result # NoResult =>
      LET again == Serialize(subs[s].result) IN
      /\ SameResult(Normalize(Obj([analysis |-> again])), subs[s].result)
      /\ SameResult(Normalize(Obj([result |-> again])), subs[s].result)
      /\ NoFields(Normalize(again))

\* A first normalization that produced non-null fields and findings.
C13_Witness ==
  \E s \in Invocations :
    /\ subs[s].result # NoResult
    /\ subs[s].result.id # Null
    /\ subs[s].result.confidence # Null
    /\ subs[s].result.overlayUrl # Null
    /\ Len(subs[s].result.findings) > 1

(***************************************************************************)
(* C14. Whatever snapshots the upload task delivers, every percentage      *)
(* uploadFile passes to onProgress is an integer of 0..100 and is at least *)
(* the percentage it passed for the snapshot before.                       *)
(***************************************************************************)
C14_ProgressNeverDecreases ==
  [][ \A s \in Invocations :
        (UploadProgress(s) /\ subs[s].file.size > 0) =>
          /\ progress' \in 0..100
          /\ progress' >= RoundPercent(subs[s].bytes, subs[s].file.size) ]_vars

(***************************************************************************)
(* C15. Submissions in flight together share no mutable state: a write the *)
(* store applies to a record comes from the submission that created the    *)
(* record, and a step of one submission leaves status, progress, result    *)
(* and error alone while another submission is in flight.                  *)
(***************************************************************************)
InFlight(s) == subs[s].outcome = "pending"

C15_NoSharedState ==
  [][ /\ \A d \in Docs :
           writes'[d] # writes[d] =>
             \E t \in Invocations :
               subs[t].documentRef = d /\ calls'[t] # calls[t]
      /\ \A s, t \in Invocations :
           (s # t /\ InFlight(s) /\ (subs'[t] # subs[t] \/ calls'[t] # calls[t])) =>
             UNCHANGED << status, progress, analysisResult, error >>
      /\ \A s \in Invocations :
           (InFlight(s) /\ Len(subs') > Len(subs)) =>
             UNCHANGED << status, progress, analysisResult, error >> ]_vars

\* The part of C15 that is about records, on its own.
C15_PatchesTargetOwnRecord ==
  [][ \A d \in Docs :
        writes'[d] # writes[d] =>
          \E t \in Invocations :
            subs[t].documentRef = d /\ calls'[t] # calls[t] ]_vars

(***************************************************************************)
(* C16. The order of the 'analyzing' patch and the inference request.      *)
(***************************************************************************)
RequestSent(s) == subs[s].request # NoRequest

\* The statuses the store has persisted for the record of invocation s.
PersistedStatuses(s) ==
  { writes[subs[s].documentRef][i].status :
      i \in DOMAIN writes[subs[s].documentRef] }

\* C16 as stated: 'analyzing' is never persisted for a record whose
\* inference request has not been sent.
C16_AnalyzingOnlyAfterRequest ==
  \A s \in Invocations :
    (CreatedRecord(s) /\ "analyzing" \in PersistedStatuses(s)) => RequestSent(s)

\* C16: what holds instead. The patch comes first: the inference request
\* is sent only once the patch to 'analyzing' has been applied and
\* acknowledged, and no request call precedes that patch.
C16_RequestOnlyAfterAnalyzing ==
  \A s \in Invocations :
    RequestSent(s) =>
      /\ CreatedRecord(s)
      /\ "analyzing" \in PersistedStatuses(s)
      /\ \E i \in DOMAIN calls[s] :
           /\ calls[s][i] = Call("updateDoc", "analyzing", "ok")
           /\ \A j \in DOMAIN calls[s] : calls[s][j].op = "fetch" => i < j

\* A request is in flight for a record that is 'analyzing'.
C16_Witness ==
  \E s \in Invocations :
    /\ RequestSent(s)
    /\ subs[s].pc = "fetch"
    /\ RecordOf(s).status = "analyzing"

(***************************************************************************)
(* C17. The stages of a submission run in sequence: when its inference     *)
(* request is sent, its upload has completed and then its record has been  *)
(* patched to 'uploaded', no request preceding either; and the imageUrl    *)
(* and storagePath of the request body are the downloadUrl and storagePath *)
(* persisted on its record.                                                *)
(***************************************************************************)
C17_RequestAfterUploadWithPersistedRef ==
  \A s \in Invocations :
    RequestSent(s) =>
      /\ \E i, j \in DOMAIN calls[s] :
           /\ i < j
           /\ calls[s][i] = Call("upload", "", "ok")
           /\ calls[s][j] = Call("updateDoc", "uploaded", "ok")
           /\ \A k \in DOMAIN calls[s] : calls[s][k].op = "fetch" => j < k
      /\ "uploaded" \in PersistedStatuses(s)
      /\ RecordOf(s).downloadUrl = Str(subs[s].request.imageUrl)
      /\ RecordOf(s).storagePath = Str(subs[s].request.storagePath)

\* A request has been sent and answered; its record holds the reference of
\* the uploaded file.
C17_Witness ==
  \E s \in Invocations :
    /\ RequestSent(s)
    /\ subs[s].pc = "json"
    /\ subs[s].file.size > 0
    /\ RecordOf(s).storagePath = Str(StoragePath(DocId(subs[s].documentRef), subs[s].file))

(***************************************************************************)
(* C18. Whatever fails, a submission makes each of its remote calls at     *)
(* most once: one record-create, one upload, one download-URL lookup, one  *)
(* inference request, and one patch to each status.                        *)
(***************************************************************************)
CallsMade(s, op, st) ==
  Cardinality({ i \in DOMAIN calls[s] :
                  calls[s][i].op = op /\ calls[s][i].status = st })

C18_NoCallIsRetried ==
  \A s \in Invocations :
    /\ CallsMade(s, "addDoc", "uploading") <= 1
    /\ CallsMade(s, "upload", "") <= 1
    /\ CallsMade(s, "getDownloadURL", "") <= 1
    /\ CallsMade(s, "fetch", "") <= 1
    /\ \A st \in {"uploaded", "analyzing", "completed", "analysis-failed"} :
         CallsMade(s, "updateDoc", st) <= 1

\* A submission whose upload failed has settled, having uploaded once.
C18_Witness ==
  \E s \in Invocations :
    /\ Settled(s)
    /\ \E i \in DOMAIN calls[s] : calls[s][i] = Call("upload", "", "rejected")
    /\ CallsMade(s, "upload", "") = 1
    /\ CallsMade(s, "fetch", "") = 0

(***************************************************************************)
(* C19. Findings extraction.                                               *)
(***************************************************************************)
\* The findings property of the payload's analysis (or result) object, as
\* the response carried it.
SourceFindings(s) ==
  LET body == ParseBody(subs[s].response)
      analysis == IF Get(body, "analysis").t \notin {"null", "undefined"}
                  THEN Get(body, "analysis")
                  ELSE IF Get(body, "result").t \notin {"null", "undefined"}
                  THEN Get(body, "result") ELSE EmptyObj
  IN Get(analysis, "findings")

Typed(v, type) == IF v.t = type THEN v ELSE Null

\* C19 as stated: no finding unless findings is an array; else one finding
\* per element that is a JSON object, in order, each field being the
\* element's property of that name when it has the field's type, else null.
C19_FindingsFieldByField ==
  \A s \in Invocations :
    subs[s].result # NoResult =>
      LET source == SourceFindings(s)
          objects == IF source.t = "arr"
                     THEN SelectSeq(source.e, LAMBDA v : v.t = "obj")
                     ELSE << >>
          findings == subs[s].result.findings
      IN /\ Len(findings) = Len(objects)
         /\ \A i \in DOMAIN objects :
              /\ findings[i].area = Typed(Get(objects[i], "area"), "str")
              /\ findings[i].label = Typed(Get(objects[i], "label"), "str")
              /\ findings[i].severity = Typed(Get(objects[i], "severity"), "str")
              /\ findings[i].count = Typed(Get(objects[i], "count"), "num")
              /\ findings[i].confidence = Typed(Get(objects[i], "confidence"), "num")
              /\ findings[i].description = Typed(Get(objects[i], "description"), "str")

\* C19: what holds instead. An element that is an array is kept as well
\* (as a finding with every field null), area falls back to the element's
\* `location` and confidence to its `probability`.
C19_FindingsWithFallbacks ==
  \A s \in Invocations :
    subs[s].result # NoResult =>
      LET source == SourceFindings(s)
          kept == IF source.t = "arr"
                  THEN SelectSeq(source.e, LAMBDA v : v.t \in {"obj", "arr"})
                  ELSE << >>
          findings == subs[s].result.findings
      IN /\ Len(findings) = Len(kept)
         /\ \A i \in DOMAIN kept :
              /\ findings[i].area =
                   IF Get(kept[i], "area").t = "str" THEN Get(kept[i], "area")
                   ELSE Typed(Get(kept[i], "location"), "str")
              /\ findings[i].label = Typed(Get(kept[i], "label"), "str")
              /\ findings[i].severity = Typed(Get(kept[i], "severity"), "str")
              /\ findings[i].count = Typed(Get(kept[i], "count"), "num")
              /\ findings[i].confidence =
                   IF Get(kept[i], "confidence").t = "num"
                   THEN Get(kept[i], "confidence")
                   ELSE Typed(Get(kept[i], "probability"), "num")
              /\ findings[i].description =
                   Typed(Get(kept[i], "description"), "str")
              /\ kept[i].t = "arr" =>
                   \A k \in DOMAIN findings[i] : findings[i][k] = Null

\* The array with an element of every type was extracted: of its eight
\* elements the three objects and the array are kept.
C19_Witness ==
  \E s \in Invocations :
    /\ subs[s].result # NoResult
    /\ SourceFindings(s) = MixedFindings
    /\ Len(subs[s].result.findings) = 4
    /\ subs[s].result.findings[3].area = Str("tail")

(***************************************************************************)
(* C20. A snapshot whose totalBytes is zero makes uploadFile call          *)
(* onProgress not at all: the step leaves progress as it was, nothing is   *)
(* divided by zero; and the upload of an empty file still resolves.        *)
(***************************************************************************)
C20_ZeroTotalReportsNothing ==
  [][ \A s \in Invocations :
        (UploadProgress(s) /\ subs[s].file.size = 0) => UNCHANGED progress ]_vars

\* The upload of the empty file has resolved and the invocation has gone
\* on, no percentage having been reported.
C20_Witness ==
  \E s \in Invocations :
    /\ subs[s].pc = "getDownloadURL"
    /\ subs[s].file.size = 0
    /\ calls[s][Len(calls[s])] = Call("upload", "", "ok")
    /\ progress = 0

(***************************************************************************)
(* C21. What the completed record holds for a 2xx payload that carries     *)
(* analysis.id as a string and analysis.metrics.confidence as a number.    *)
(***************************************************************************)
\* The payload's analysis object, when the payload has one with a string id
\* and a numeric metrics.confidence.
CarriesIdAndConfidence(body) ==
  /\ Get(body, "analysis").t = "obj"
  /\ Get(Get(body, "analysis"), "id").t = "str"
  /\ Get(Get(Get(body, "analysis"), "metrics"), "confidence").t = "num"

\* The number of elements of analysis.findings whose type is one of types.
ElementsOfType(body, types) ==
  LET findings == Get(Get(body, "analysis"), "findings")
  IN IF findings.t = "arr"
     THEN Cardinality({ i \in DOMAIN findings.e : findings.e[i].t \in types })
     ELSE 0

CompletedWith(s) ==
  /\ subs[s].response.ok
  /\ subs[s].result # NoResult
  /\ CarriesIdAndConfidence(ParseBody(subs[s].response))
  /\ RecordOf(s).status = "completed"

\* C21 as stated: the record's analysisId and analysisConfidence are the
\* payload's values, the confidence as it came, and there are as many
\* findings as analysis.findings has elements that are objects.
C21_CompletedRecordCarriesPayload ==
  \A s \in Invocations :
    CompletedWith(s) =>
      LET analysis == Get(ParseBody(subs[s].response), "analysis") IN
      /\ RecordOf(s).analysisId = Get(analysis, "id")
      /\ RecordOf(s).analysisConfidence = Get(Get(analysis, "metrics"), "confidence")
      /\ Len(subs[s].result.findings) =
           ElementsOfType(ParseBody(subs[s].response), {"obj"})

\* C21: what holds instead. The same, the findings being as many as the
\* elements of analysis.findings that are objects or arrays.
C21_CompletedRecordCountsArrays ==
  \A s \in Invocations :
    CompletedWith(s) =>
      LET analysis == Get(ParseBody(subs[s].response), "analysis") IN
      /\ RecordOf(s).analysisId = Get(analysis, "id")
      /\ RecordOf(s).analysisConfidence = Get(Get(analysis, "metrics"), "confidence")
      /\ Len(subs[s].result.findings) =
           ElementsOfType(ParseBody(subs[s].response), {"obj", "arr"})

\* A record completed with a confidence outside [0,1] and with findings.
C21_Witness ==
  \E s \in Invocations :
    /\ CompletedWith(s)
    /\ RecordOf(s).analysisId = Str("a1")
    /\ RecordOf(s).analysisConfidence = Num(82)
    /\ Len(subs[s].result.findings) > 0

(***************************************************************************)
(* C22. No patch issued after the record's creation changes fileName,      *)
(* fileSize, fileType or uploadedBy; and once the 'uploaded' patch has     *)
(* written storagePath and downloadUrl, no later patch changes or clears   *)
(* them.                                                                   *)
(***************************************************************************)
SourceFileFields == { "fileName", "fileSize", "fileType", "uploadedBy" }
StorageRefFields == { "storagePath", "downloadUrl" }

C22_PatchesLeaveFileAndStorageRef ==
  \A d \in Docs :
    /\ \A k \in SourceFileFields : crackImages[d][k] = writes[d][1][k]
    /\ \A i \in 2..Len(writes[d]) : DOMAIN writes[d][i] \cap SourceFileFields = {}
    /\ \A i \in DOMAIN writes[d] :
         writes[d][i].status = "uploaded" =>
           /\ \A k \in StorageRefFields : crackImages[d][k] = writes[d][i][k]
           /\ \A j \in (i + 1)..Len(writes[d]) :
                DOMAIN writes[d][j] \cap StorageRefFields = {}

\* A record that was patched to 'uploaded', then 'analyzing', then
\* 'analysis-failed', and still holds its storage reference.
C22_Witness ==
  \E d \in Docs :
    /\ StatusLog(d) = << "uploading", "uploaded", "analyzing", "analysis-failed" >>
    /\ HasStorageRef(crackImages[d])

(***************************************************************************)
(* C23. The status the user sees follows the record of the submission that *)
(* set it: it is 'success' only when that submission's record is           *)
(* persisted as 'completed' (so never for a record 'analysis-failed'), and *)
(* when a stage fails the status becomes 'error' with the message that the *)
(* failure patch persists as the record's error.                           *)
(***************************************************************************)
C23_SuccessShownForCompleted ==
  status = "success" =>
    \E s \in Invocations :
      /\ CreatedRecord(s)
      /\ RecordOf(s).status = "completed"
      /\ analysisResult = subs[s].result

C23_PersistedErrorIsShownError ==
  \A s \in Invocations :
    (CreatedRecord(s) /\ RecordOf(s).status = "analysis-failed") =>
      RecordOf(s).analysisError = Str(subs[s].message)

C23_UiInSyncWithRecord ==
  /\ [](C23_SuccessShownForCompleted /\ C23_PersistedErrorIsShownError)
  /\ [][ \A s \in Invocations :
           subs'[s].message # subs[s].message =>
             status' = "error" /\ error' = Str(subs'[s].message) ]_vars

\* Success is shown while another submission's record is 'analysis-failed'.
C23_Witness ==
  /\ status = "success"
  /\ \E s, t \in Invocations :
       /\ CreatedRecord(s) /\ CreatedRecord(t)
       /\ RecordOf(s).status = "completed"
       /\ analysisResult = subs[s].result
       /\ RecordOf(t).status = "analysis-failed"
       /\ RecordOf(t).analysisError = Str(subs[t].message)

(***************************************************************************)
(* C25. A file selection or a resetState made while a submission is in     *)
(* flight is not undone by that submission: as long as no new submission   *)
(* is started, a step of the submission in flight leaves the status 'idle' *)
(* and the result null.                                                    *)
(***************************************************************************)
C25_ResetIsNotUndone ==
  [][ \A s \in Invocations :
        (InFlight(s) /\ status = "idle" /\ subs'[s] # subs[s]) =>
          status' = "idle" /\ analysisResult' = Null ]_vars

(***************************************************************************)
(* C27. When the record-create call fails, the submission makes no other   *)
(* remote call (no upload, no inference request, no patch) and settles,    *)
(* and the step in which the call fails leaves the UI in status 'error'    *)
(* with the failure's message.                                             *)
(***************************************************************************)
AddDocFailed(s) ==
  calls[s] # << >> /\ calls[s][1] = Call("addDoc", "uploading", "rejected")

C27_CreateFailureStopsSubmission ==
  /\ [](\A s \in Invocations :
          AddDocFailed(s) =>
            /\ Len(calls[s]) = 1
            /\ ~CreatedRecord(s)
            /\ ~RequestSent(s)
            /\ subs[s].outcome = "resolved"
            /\ \E err \in AddDocErrors : subs[s].message = err.message)
  /\ [][ \A s \in Invocations :
           (calls[s] = << >> /\ calls'[s] # << >> /\ subs'[s].message # "") =>
             status' = "error" /\ error' = Str(subs'[s].message) ]_vars

\* The record-create call has failed and the UI shows its message.
C27_Witness ==
  \E s \in Invocations :
    /\ AddDocFailed(s)
    /\ Len(crackImages) = 0
    /\ status = "error"
    /\ error = Str("permission-denied")

(***************************************************************************)
(* C26. If every remote call eventually settles, then after a submission   *)
(* has started the UI status leaves 'uploading' and 'analyzing' and        *)
(* reaches 'success' or 'error'.                                           *)
(***************************************************************************)
\* The next remote call of invocation s settles.
Settle(s) ==
  /\ s \in Invocations
  /\ \/ AddDoc(s)
     \/ UploadSettles(s)
     \/ GetDownloadURL(s)
     \/ UpdateUploaded(s)
     \/ UpdateAnalyzing(s)
     \/ Fetch(s)
     \/ ResponseJson(s)
     \/ UpdateCompleted(s)
     \/ UpdateFailed(s)
  /\ UNCHANGED << localModel, otherComponents >>

\* The submissions of one file, in flight together, every remote call of
\* every invocation settling eventually.
PhotoFile == CHOOSE file \in Files : file.size > 0

NextSettling ==
  \/ HandleFileChange(PhotoFile) /\ UNCHANGED otherComponents
  \/ ResetState /\ UNCHANGED otherComponents
  \/ HandleAnalyze /\ UNCHANGED << localModel, otherComponents >>
  \/ \E s \in Invocations : AddDoc(s)
                              /\ UNCHANGED << localModel, otherComponents >>
  \/ \E s \in Invocations : UploadProgress(s)
                              /\ UNCHANGED << localModel, otherComponents >>
  \/ \E s \in Invocations : UploadSettles(s)
                              /\ UNCHANGED << localModel, otherComponents >>
  \/ \E s \in Invocations : GetDownloadURL(s)
                              /\ UNCHANGED << localModel, otherComponents >>
  \/ \E s \in Invocations : UpdateUploaded(s)
                              /\ UNCHANGED << localModel, otherComponents >>
  \/ \E s \in Invocations : UpdateAnalyzing(s)
                              /\ UNCHANGED << localModel, otherComponents >>
  \/ \E s \in Invocations : Fetch(s)
                              /\ UNCHANGED << localModel, otherComponents >>
  \/ \E s \in Invocations : ResponseJson(s)
                              /\ UNCHANGED << localModel, otherComponents >>
  \/ \E s \in Invocations : UpdateCompleted(s)
                              /\ UNCHANGED << localModel, otherComponents >>
  \/ \E s \in Invocations : UpdateFailed(s)
                              /\ UNCHANGED << localModel, otherComponents >>

SpecSettling ==
  Init /\ [][NextSettling]_vars /\ \A s \in 1..MaxSubs : WF_vars(Settle(s))

Started(s) == s \in Invocations /\ subs[s].pc = "addDoc"

C26_StartedSubmissionEnds ==
  \A s \in 1..MaxSubs : Started(s) ~> (status \in {"success", "error"})

\* A submission has settled and the UI shows how it ended.
C26_Witness ==
  \E s \in Invocations :
    /\ CreatedRecord(s)
    /\ Settled(s)
    /\ status \in {"success", "error"}


(***************************************************************************)
(* The reference inference service (types.ts 87-149): an express handler   *)
(* over two in-memory Maps. The handler is synchronous, so a request is    *)
(* served in one step.                                                     *)
(***************************************************************************)
\* !v for the JSON values a request body can hold.
Falsy(v) ==
  \/ v.t \in {"undefined", "null"}
  \/ v = Str("")
  \/ v = Num(0)
  \/ v = Bool(FALSE)

\* Map.prototype.has / get / set, for Maps whose keys are strings.
MapHas(map, key) == key.t = "str" /\ key.s \in DOMAIN map
MapGet(map, key) == IF MapHas(map, key) THEN map[key.s] ELSE Undefined
MapSet(map, k, v) ==
  [ x \in DOMAIN map \cup {k} |-> IF x = k THEN v ELSE map[x] ]

\* `analysis-${Date.now()}-${Math.random().toString(36).slice(2, 8)}`: the
\* clock and the random suffix may repeat, so an id may be one already used.
AnalysisIds == { "analysis-" \o ToString(n) : n \in 1..MaxAnalysisIds }
\* Number(Math.random().toFixed(2)), in hundredths.
Hundredths == { 0, 100 }
MetricsValues ==
  { Obj([ confidence |-> Num(c), score |-> Num(sc) ]) :
      c \in Hundredths, sc \in Hundredths }

\* req.body as express.json() leaves it.
ImageIdInputs ==
  { Undefined, Null, Str(""), Num(0), Bool(FALSE),
    Str("image-1"), Str("image-2"), Num(1) }
RequestBodies ==
  { Undefined } \cup { ObjOf([ imageId |-> v ]) : v \in ImageIdInputs }

\* const { imageId } = req.body || {}
ImageIdOf(body) == IF Falsy(body) THEN Undefined ELSE Get(body, "imageId")

\* An analysis document that records the image's URL as its imageId.
AnalysisDocByUrl(image, analysisId, metrics) ==
  Obj([ id |-> Str(analysisId),
        imageId |-> Get(image, "originalUrl"),
        overlayUrl |-> Get(image, "originalUrl"),
        metrics |-> metrics,
        createdAt |-> Str("now") ])

\* createAnalysisDoc, the document it builds (lines 112-118).
AnalysisDoc(image, analysisId, metrics) ==
  Obj([ id |-> Str(analysisId),
        imageId |-> Get(image, "id"),
        overlayUrl |-> Get(image, "originalUrl"),
        metrics |-> metrics,
        createdAt |-> Str("now") ])

\* { ...imageDoc, analysisId, status: 'analyzed', overlayUrl } (lines 139-144).
UpdatedImageDoc(imageDoc, analysisDoc) ==
  Obj(Merge(imageDoc.f, [ analysisId |-> Get(analysisDoc, "id"),
                          status |-> Str("analyzed"),
                          overlayUrl |-> Get(analysisDoc, "overlayUrl") ]))

Reply(body, code, json) == [ body |-> body, code |-> code, json |-> json ]

\* app.post('/api/analyzeImage', ...) (lines 124-149).
PostAnalyzeImage(body) ==
  LET imageId == ImageIdOf(body)
      imageDoc == MapGet(imageStore, imageId)
  IN
  /\ Len(replies) < MaxRequests
  /\ IF Falsy(imageId)
     THEN /\ replies' = Append(replies,
               Reply(body, 400, Obj([ error |-> Str("imageId is required") ])))
          /\ UNCHANGED << imageStore, analysesStore >>
     ELSE IF imageDoc = Undefined
     THEN /\ replies' = Append(replies,
               Reply(body, 404, Obj([ error |-> Str("Image not found") ])))
          /\ UNCHANGED << imageStore, analysesStore >>
     ELSE \E analysisId \in AnalysisIds, metrics \in MetricsValues :
            LET analysisDoc == AnalysisDoc(imageDoc, analysisId, metrics)
                updatedImageDoc == UpdatedImageDoc(imageDoc, analysisDoc)
            IN
            /\ analysesStore' = MapSet(analysesStore, analysisId, analysisDoc)
            /\ imageStore' = MapSet(imageStore, imageId.s, updatedImageDoc)
            /\ replies' = Append(replies,
                 Reply(body, 200, Obj([ analysis |-> analysisDoc,
                                        image |-> updatedImageDoc ])))

NextService ==
  \/ \E body \in RequestBodies :
       PostAnalyzeImage(body)
         /\ UNCHANGED << ui, crackImages, subs, calls, writes, localModel,
                         documentsPage, authGate >>

SpecService == Init /\ [][NextService]_vars

(***************************************************************************)
(* C24. After any sequence of POST /api/analyzeImage requests, every       *)
(* stored image with status 'analyzed' has an analysisId that is a key of  *)
(* analysesStore whose document references that image; a request without   *)
(* an imageId is answered 400 and one with an unknown imageId 404, and     *)
(* both leave imageStore and analysesStore unchanged.                      *)
(***************************************************************************)
AnalyzedImagesHaveAnalysis ==
  \A k \in DOMAIN imageStore :
    Get(imageStore[k], "status") = Str("analyzed") =>
      /\ MapHas(analysesStore, Get(imageStore[k], "analysisId"))
      /\ Get(MapGet(analysesStore, Get(imageStore[k], "analysisId")),
             "imageId") = Str(k)

C24_AnalyzedImagesReferenceTheirAnalysis ==
  /\ [](AnalyzedImagesHaveAnalysis)
  /\ [][replies' # replies =>
          LET reply == replies'[Len(replies')]
              imageId == ImageIdOf(reply.body)
          IN
          /\ replies' = Append(replies, reply)
          /\ Falsy(imageId) <=> reply.code = 400
          /\ (~Falsy(imageId) /\ ~MapHas(imageStore, imageId))
                <=> reply.code = 404
          /\ reply.code \in {400, 404} =>
                UNCHANGED << imageStore, analysesStore >>]_vars

C24_Witness ==
  /\ Get(imageStore["image-1"], "status") = Str("analyzed")
  /\ \E i, j \in DOMAIN replies : replies[i].code = 400 /\ replies[j].code = 404


(***************************************************************************)
(* handleRunLocalModel (part_002 313-336) and runAiModelOnImage            *)
(* (aiClient.ts 22-37), one action per await.                              *)
(***************************************************************************)
\* AiModelTab: the Run button is disabled when !selectedFile || isLoading.
RunEnabled == selectedFile # NoFile /\ ~isLocalPredictionLoading

\* A frame of handleRunLocalModel: the await it is suspended at, the file of
\* its closure, and how it ended.
RunFrame(pc, file) == [ pc |-> pc, file |-> file, ended |-> "" ]
Runs == 1..Len(runs)

\* Bodies of the prediction service's 2xx responses.
PredictBodies ==
  { Null } \cup
  { ObjOf([ success |-> ok, severity |-> Str("high") ]) :
      ok \in { Bool(TRUE), Bool(FALSE), Undefined } }
\* Bodies of its other responses, as text.
ErrorTexts == { "", "model not loaded" }

\* err instanceof Error ? err.message : 'Unable to run the AI model.'
RunCatchMessage(err) ==
  IF err.isError THEN err.message ELSE "Unable to run the AI model."

\* A catch block that leaves the previous prediction in place.
RunCatchKeepingPrediction(r, err, cause) ==
  /\ localPredictionError' = Str(RunCatchMessage(err))
  /\ isLocalPredictionLoading' = FALSE
  /\ runs' = [runs EXCEPT ![r].pc = "done", ![r].ended = cause]
  /\ UNCHANGED localPrediction

\* Lines 329-335: the catch block, then finally.
RunCatch(r, err, cause) ==
  /\ localPredictionError' = Str(RunCatchMessage(err))
  /\ localPrediction' = Null
  /\ isLocalPredictionLoading' = FALSE
  /\ runs' = [runs EXCEPT ![r].pc = "done", ![r].ended = cause]

\* Lines 313-324 and aiClient.ts 22-29: up to await fetch.
HandleRunLocalModel ==
  /\ RunEnabled
  /\ Len(runs) < MaxRuns
  /\ IF selectedFile = NoFile
     THEN /\ localPredictionError' = Str("Select an image to run the AI model.")
          /\ runs' = Append(runs, [ RunFrame("done", selectedFile)
                                      EXCEPT !.ended = "no-file" ])
          /\ UNCHANGED << localPrediction, isLocalPredictionLoading >>
     ELSE /\ localPredictionError' = Null
          /\ isLocalPredictionLoading' = TRUE
          /\ runs' = Append(runs, RunFrame("fetch", selectedFile))
          /\ UNCHANGED localPrediction
  /\ UNCHANGED << ui, crackImages, subs, calls, writes >>

\* aiClient.ts 26-31: fetch rejects, or resolves with a response.
PredictFetch(r) ==
  /\ runs[r].pc = "fetch"
  /\ \/ \E err \in FetchErrors : RunCatch(r, err, "transport")
     \/ \E next \in { "json", "text" } :
          /\ runs' = [runs EXCEPT ![r].pc = next]
          /\ UNCHANGED << localPrediction, localPredictionError,
                          isLocalPredictionLoading >>
  /\ UNCHANGED << ui, crackImages, subs, calls, writes >>

\* aiClient.ts 31-34: !response.ok.
PredictText(r) ==
  /\ runs[r].pc = "text"
  /\ \/ \E text \in ErrorTexts :
          RunCatch(r, Err(IF text # "" THEN text ELSE "AI API error"), "http")
     \/ RunCatch(r, Err("Failed to fetch"), "http")
  /\ UNCHANGED << ui, crackImages, subs, calls, writes >>

\* aiClient.ts 36 and part_002 323-328: response.json(), then the success
\* check.
PredictJson(r) ==
  /\ runs[r].pc = "json"
  /\ \/ RunCatch(r, Err("Unexpected token < in JSON at position 0"), "body")
     \/ \E prediction \in PredictBodies :
          IF prediction = Null
          THEN RunCatch(r, Err("Cannot read properties of null (reading 'success')"),
                        "body")
          ELSE IF Falsy(Get(prediction, "success"))
          THEN RunCatch(r, Err("Failed to run AI model."), "success-false")
          ELSE /\ localPrediction' = prediction
               /\ localPredictionError' = Null
               /\ isLocalPredictionLoading' = FALSE
               /\ runs' = [runs EXCEPT ![r].pc = "done",
                                       ![r].ended = "prediction"]
  /\ UNCHANGED << ui, crackImages, subs, calls, writes >>

NextLocalModel ==
  \/ \E file \in Files \cup {NoFile} : HandleFileChange(file) /\ UNCHANGED otherComponents
  \/ ResetState /\ UNCHANGED otherComponents
  \/ HandleRunLocalModel /\ UNCHANGED otherComponents
  \/ \E r \in Runs : PredictFetch(r) /\ UNCHANGED otherComponents
  \/ \E r \in Runs : PredictText(r) /\ UNCHANGED otherComponents
  \/ \E r \in Runs : PredictJson(r) /\ UNCHANGED otherComponents

SpecLocalModel == Init /\ [][NextLocalModel]_vars

(***************************************************************************)
(* C30. The step in which a handleRunLocalModel call settles leaves        *)
(* isLocalPredictionLoading false and exactly one of localPrediction and   *)
(* localPredictionError non-null; a response with success = false, a       *)
(* non-OK HTTP status and a transport failure all end as an error with no  *)
(* prediction.                                                             *)
(***************************************************************************)
RunSettles(r) == runs[r].pc # "done" /\ runs'[r].pc = "done"

C30_SettledRunLeavesOneOutcome ==
  [][\A r \in Runs :
       RunSettles(r) =>
         /\ isLocalPredictionLoading' = FALSE
         /\ (localPrediction' # Null) # (localPredictionError' # Null)
         /\ runs'[r].ended = "prediction" <=> localPrediction' # Null
         /\ runs'[r].ended \in { "success-false", "http", "transport" } =>
              /\ localPrediction' = Null
              /\ localPredictionError' # Null]_vars

C30_Witness ==
  /\ \A cause \in { "success-false", "http", "transport" } :
       \E r \in Runs : runs[r].pc = "done" /\ runs[r].ended = cause
  /\ ~isLocalPredictionLoading
  /\ localPrediction = Null
  /\ localPredictionError # Null


(***************************************************************************)
(* Documents.handleUpload (Documents.tsx 190-264), one action per await,   *)
(* and the form handlers that feed it. The form controls and both buttons  *)
(* are disabled while isUploading.                                         *)
(***************************************************************************)
\* The files offered to the file input (accept="application/pdf,.pdf").
DocumentFiles ==
  { [name |-> "manual.pdf", size |-> MaxFileBytes, type |-> "application/pdf"] }
\* What the user types in the name and description fields.
TitleInputs == { "", " ", "Parts Manual" }
DescriptionInputs == { "", " torque values " }
\* The values of the type Select.
DocumentTypes == { "Catalog", "Other" }

\* String.prototype.trim, for the strings of the model.
Trim(str) ==
  CASE str = " " -> ""
    [] str = " torque values " -> "torque values"
    [] str = " Line Maintenance " -> "Line Maintenance"
    [] OTHER -> str

\* file.name.replace(/\.[^/.]+$/, ''), for the file names of the model.
WithoutExtension(name) ==
  CASE name = "manual.pdf" -> "manual"
    [] OTHER -> name

\* `users/${user.uid}/documents/${documentRef.id}/${selectedFile.name}`
DocumentStoragePath(id, file) ==
  "users/" \o user.uid \o "/documents/" \o id \o "/" \o file.name

\* The record addDoc creates (lines 215-227).
DocumentRecord(file, title, type, description) ==
  [ title |-> Str(Trim(title)),
    type |-> Str(type),
    description |->
      IF Trim(description) = "" THEN Null ELSE Str(Trim(description)),
    status |-> "uploading",
    fileName |-> file.name,
    fileSize |-> file.size,
    fileType |-> file.type,
    uploadedBy |-> user.uid,
    uploadedByEmail |-> Coalesce(user.email, Null),
    createdAt |-> ServerTimestamp,
    updatedAt |-> ServerTimestamp ]

\* Lines 233-239.
DocumentCompletedPatch(storagePath, downloadUrl) ==
  [ storagePath |-> storagePath,
    downloadUrl |-> downloadUrl,
    status |-> "completed",
    uploadedAt |-> ServerTimestamp,
    updatedAt |-> ServerTimestamp ]

\* Lines 252-255.
DocumentFailedPatch == [ status |-> "failed", updatedAt |-> ServerTimestamp ]

UploadFrame(pc, file) ==
  [ pc |-> pc, file |-> file, documentRef |-> 0, storagePath |-> "",
    downloadUrl |-> "", outcome |-> "pending" ]
Uploads == 1..Len(uploads)

\* error instanceof Error ? error.message : 'Unable to upload document. ...'
UploadCatchMessage(err) ==
  IF err.isError THEN err.message
  ELSE "Unable to upload document. Please try again."

\* Lines 257-263.
UploadFinally ==
  /\ isUploading' = FALSE
  /\ uploadProgress' = Null

\* Lines 246-256: the catch block up to its await, or through finally when
\* there is no record to patch.
UploadCatch(u, err) ==
  /\ uploadError' = Str(UploadCatchMessage(err))
  /\ uploadMessage' = Null
  /\ IF uploads[u].documentRef # 0
     THEN /\ uploads' = [uploads EXCEPT ![u].pc = "updateFailed"]
          /\ UNCHANGED << isUploading, uploadProgress >>
     ELSE /\ uploads' = [uploads EXCEPT ![u].pc = "done",
                                        ![u].outcome = "resolved"]
          /\ UploadFinally
  /\ UNCHANGED << formError, documentsForm >>

DocumentsUpdateDoc(d, patch, o) ==
  IF Applied(o)
  THEN documentsCollection' = [documentsCollection EXCEPT ![d] = Merge(@, patch)]
  ELSE UNCHANGED documentsCollection

\* Lines 266-277.
DocumentsHandleFileChange(file) ==
  /\ ~isUploading
  /\ IF file = NoFile
     THEN UNCHANGED << documentFile, formError, uploadMessage, uploadError,
                       newDocumentTitle >>
     ELSE /\ documentFile' = file
          /\ formError' = Null
          /\ uploadMessage' = Null
          /\ uploadError' = Null
          /\ newDocumentTitle' =
               IF newDocumentTitle # "" THEN newDocumentTitle
               ELSE WithoutExtension(file.name)
  /\ UNCHANGED << documentsCollection, uploads, newDocumentType,
                  newDocumentDescription, isUploading, uploadProgress >>

\* Lines 303-347: the name, type and description controls.
SetNewDocumentTitle(title) ==
  /\ ~isUploading
  /\ newDocumentTitle' = title
  /\ UNCHANGED << documentsCollection, uploads, documentFile, newDocumentType,
                  newDocumentDescription, documentsStatus >>

SetNewDocumentType(type) ==
  /\ ~isUploading
  /\ newDocumentType' = type
  /\ UNCHANGED << documentsCollection, uploads, documentFile, newDocumentTitle,
                  newDocumentDescription, documentsStatus >>

SetNewDocumentDescription(description) ==
  /\ ~isUploading
  /\ newDocumentDescription' = description
  /\ UNCHANGED << documentsCollection, uploads, documentFile, newDocumentTitle,
                  newDocumentType, documentsStatus >>

\* Lines 190-214: up to the first await.
HandleUpload ==
  /\ ~isUploading
  /\ Len(uploads) < MaxUploads
  /\ IF documentFile = NoFile
     THEN /\ formError' = Str("Please select a file to upload.")
          /\ UNCHANGED << uploads, isUploading, uploadProgress, uploadMessage,
                          uploadError >>
     ELSE IF Trim(newDocumentTitle) = ""
     THEN /\ formError' = Str("Please provide a document name.")
          /\ UNCHANGED << uploads, isUploading, uploadProgress, uploadMessage,
                          uploadError >>
     ELSE IF newDocumentType = ""
     THEN /\ formError' = Str("Please select a document type.")
          /\ UNCHANGED << uploads, isUploading, uploadProgress, uploadMessage,
                          uploadError >>
     ELSE /\ isUploading' = TRUE
          /\ uploadProgress' = Num(0)
          /\ uploadMessage' = Str("Uploading document...")
          /\ uploadError' = Null
          /\ formError' = Null
          /\ uploads' = Append(uploads, UploadFrame("addDoc", documentFile))
  /\ UNCHANGED << documentsCollection, documentsForm >>

\* Lines 215-229.
DocumentsAddDoc(u) ==
  /\ uploads[u].pc = "addDoc"
  /\ \/ /\ documentsCollection' =
             Append(documentsCollection,
                    DocumentRecord(uploads[u].file, newDocumentTitle,
                                   newDocumentType, newDocumentDescription))
        /\ uploads' = [uploads EXCEPT ![u].pc = "upload",
             ![u].documentRef = Len(documentsCollection) + 1,
             ![u].storagePath =
                DocumentStoragePath(DocId(Len(documentsCollection) + 1),
                                    uploads[u].file)]
        /\ UNCHANGED << documentsForm, documentsStatus >>
     \/ /\ \E err \in AddDocErrors : UploadCatch(u, err)
        /\ UNCHANGED documentsCollection

\* Lines 119-126: a state_changed snapshot of the upload task.
DocumentsUploadProgress(u) ==
  /\ uploads[u].pc = "upload"
  /\ uploads[u].file.size > 0
  /\ \E transferred \in 0 .. uploads[u].file.size :
       uploadProgress' = Num(RoundPercent(transferred, uploads[u].file.size))
  /\ UNCHANGED << documentsCollection, uploads, documentsForm, isUploading,
                  uploadMessage, uploadError, formError >>

\* Lines 127-128 and 230.
DocumentsUploadSettles(u) ==
  /\ uploads[u].pc = "upload"
  /\ \/ /\ uploads' = [uploads EXCEPT ![u].pc = "getDownloadURL"]
        /\ UNCHANGED << documentsForm, documentsStatus >>
     \/ \E err \in UploadErrors : UploadCatch(u, err)
  /\ UNCHANGED documentsCollection

\* Line 231.
DocumentsGetDownloadURL(u) ==
  /\ uploads[u].pc = "getDownloadURL"
  /\ \/ /\ uploads' = [uploads EXCEPT ![u].pc = "updateCompleted",
             ![u].downloadUrl = DownloadUrl(uploads[u].storagePath)]
        /\ UNCHANGED << documentsForm, documentsStatus >>
     \/ \E err \in UrlErrors : UploadCatch(u, err)
  /\ UNCHANGED documentsCollection

\* Lines 233-245, then finally.
DocumentsUpdateCompleted(u) ==
  /\ uploads[u].pc = "updateCompleted"
  /\ \E o \in PatchOutcomes :
       /\ DocumentsUpdateDoc(uploads[u].documentRef,
            DocumentCompletedPatch(uploads[u].storagePath,
                                   uploads[u].downloadUrl), o)
       /\ IF o = "ok"
          THEN /\ uploadMessage' = Str("Document uploaded successfully.")
               /\ documentFile' = NoFile
               /\ newDocumentTitle' = ""
               /\ newDocumentType' = "Catalog"
               /\ newDocumentDescription' = ""
               /\ uploads' = [uploads EXCEPT ![u].pc = "done",
                                             ![u].outcome = "resolved"]
               /\ UploadFinally
               /\ UNCHANGED << uploadError, formError >>
          ELSE UploadCatch(u, PatchError(o))

\* Lines 251-263: the failure patch, then finally.
DocumentsUpdateFailed(u) ==
  /\ uploads[u].pc = "updateFailed"
  /\ \E o \in PatchOutcomes :
       /\ DocumentsUpdateDoc(uploads[u].documentRef, DocumentFailedPatch, o)
       /\ uploads' = [uploads EXCEPT ![u].pc = "done",
            ![u].outcome = IF o = "ok" THEN "resolved" ELSE "rejected"]
  /\ UploadFinally
  /\ UNCHANGED << documentsForm, uploadMessage, uploadError, formError >>

elsewhereOfDocuments ==
  << ui, crackImages, subs, calls, writes, localModel, service, authGate >>

NextDocuments ==
  \/ \E file \in DocumentFiles \cup {NoFile} :
       DocumentsHandleFileChange(file) /\ UNCHANGED elsewhereOfDocuments
  \/ \E title \in TitleInputs :
       SetNewDocumentTitle(title) /\ UNCHANGED elsewhereOfDocuments
  \/ \E type \in DocumentTypes :
       SetNewDocumentType(type) /\ UNCHANGED elsewhereOfDocuments
  \/ \E description \in DescriptionInputs :
       SetNewDocumentDescription(description) /\ UNCHANGED elsewhereOfDocuments
  \/ HandleUpload /\ UNCHANGED elsewhereOfDocuments
  \/ \E u \in Uploads : DocumentsAddDoc(u) /\ UNCHANGED elsewhereOfDocuments
  \/ \E u \in Uploads :
       DocumentsUploadProgress(u) /\ UNCHANGED elsewhereOfDocuments
  \/ \E u \in Uploads :
       DocumentsUploadSettles(u) /\ UNCHANGED elsewhereOfDocuments
  \/ \E u \in Uploads :
       DocumentsGetDownloadURL(u) /\ UNCHANGED elsewhereOfDocuments
  \/ \E u \in Uploads :
       DocumentsUpdateCompleted(u) /\ UNCHANGED elsewhereOfDocuments
  \/ \E u \in Uploads :
       DocumentsUpdateFailed(u) /\ UNCHANGED elsewhereOfDocuments

SpecDocuments == Init /\ [][NextDocuments]_vars

(***************************************************************************)
(* C28. A document record moves only from 'uploading' to 'completed' or    *)
(* from 'uploading' to 'failed'; its downloadUrl and storagePath are set   *)
(* if and only if its status is 'completed'; and once handleUpload has     *)
(* settled, the record it created is not left in 'uploading'.              *)
(***************************************************************************)
HasDocumentStorageRef(record) ==
  "storagePath" \in DOMAIN record /\ "downloadUrl" \in DOMAIN record

StorageRefIffCompleted ==
  \A d \in DOMAIN documentsCollection :
    HasDocumentStorageRef(documentsCollection[d])
      <=> documentsCollection[d].status = "completed"

SettledUploadLeftUploading(u) ==
  /\ uploads[u].pc = "done"
  /\ uploads[u].documentRef # 0
  /\ documentsCollection[uploads[u].documentRef].status = "uploading"

C28_DocumentRecordLifecycle ==
  /\ [](StorageRefIffCompleted)
  /\ [](\A u \in Uploads : ~SettledUploadLeftUploading(u))
  /\ [][\A d \in DOMAIN documentsCollection :
          documentsCollection'[d].status # documentsCollection[d].status =>
            /\ documentsCollection[d].status = "uploading"
            /\ documentsCollection'[d].status \in {"completed", "failed"}]_vars


(***************************************************************************)
(* AuthGate (part_003 171-318): email registration and sign-in, and the    *)
(* onAuthStateChanged callback, one action per await.                      *)
(***************************************************************************)
\* What the user types in the registration form.
ProfileFieldNames == { "department", "studentOrStaffId", "role" }
ProfileInputs ==
  [ department |-> { "", " Line Maintenance " },
    studentOrStaffId |-> { "", "EMP-2025-0001" },
    role |-> { "", "Aircraft Engineer" } ]
EmailInputs == { "engineer@aerognosis.com" }
PasswordInputs == { "secret" }

AuthErrors == { Err("auth/network-request-failed") }
GetDocErrors == { Err("unavailable") }

\* The forms are rendered unless stage === 'authenticated' && user; the
\* sign-in and registration forms when the stage is 'sign-in'.
SignInFormShown == stage = "sign-in"

SubmitFrame(pc, registering, fields) ==
  [ pc |-> pc, registering |-> registering, fields |-> fields,
    outcome |-> "pending" ]
Submits == 1..Len(submits)
CallbackFrame(pc, firebaseUser) == [ pc |-> pc, user |-> firebaseUser ]
Callbacks == 1..Len(callbacks)

\* handleAuthError's message (lines 228-229).
AuthErrorMessage(err) ==
  IF err.isError THEN err.message
  ELSE "An unexpected error occurred. Please try again."

\* createUserProfile's document (lines 234-244).
ProfileDocument(fields) ==
  [ exists |-> TRUE,
    data |-> [ department |-> Trim(fields.department),
               studentOrStaffId |-> Trim(fields.studentOrStaffId),
               role |-> Trim(fields.role),
               createdAt |-> ServerTimestamp ] ]

\* ensureUserProfileDocument's document (lines 191-193).
PlaceholderDocument == [ exists |-> TRUE, data |-> [ createdAt |-> ServerTimestamp ] ]

\* setDoc without merge replaces the document.
SetDoc(document, o) ==
  IF Applied(o) THEN userProfileDoc' = document ELSE UNCHANGED userProfileDoc

\* Lines 584-587 and 607-610.
SetIsRegistering(value) ==
  /\ SignInFormShown
  /\ isRegistering' = value
  /\ authError' = Null
  /\ UNCHANGED << userProfileDoc, account, authEvents, stage, gateUser,
                  isSubmitting, email, password, profileFields, submits,
                  callbacks >>

\* The inputs of the forms, disabled while isSubmitting.
SetEmail(value) ==
  /\ SignInFormShown /\ ~isSubmitting
  /\ email' = value
  /\ UNCHANGED << userProfileDoc, account, authEvents, stage, gateUser,
                  isSubmitting, authError, isRegistering, password,
                  profileFields, submits, callbacks >>

SetPassword(value) ==
  /\ SignInFormShown /\ ~isSubmitting
  /\ password' = value
  /\ UNCHANGED << userProfileDoc, account, authEvents, stage, gateUser,
                  isSubmitting, authError, isRegistering, email,
                  profileFields, submits, callbacks >>

SetProfileField(name, value) ==
  /\ SignInFormShown /\ isRegistering /\ ~isSubmitting
  /\ profileFields' = [profileFields EXCEPT ![name] = value]
  /\ UNCHANGED << userProfileDoc, account, authEvents, stage, gateUser,
                  isSubmitting, authError, isRegistering, email, password,
                  submits, callbacks >>

\* Lines 221-225.
ResetFormState ==
  /\ email' = ""
  /\ password' = ""
  /\ profileFields' = EmptyProfileFields

\* Lines 267-271: catch and finally of handleSubmit.
SubmitCatch(h, err) ==
  /\ authError' = Str(AuthErrorMessage(err))
  /\ isSubmitting' = FALSE
  /\ submits' = [submits EXCEPT ![h].pc = "done", ![h].outcome = "failed"]

\* Lines 247-259 and 264: handleSubmit up to its first await.
HandleSubmit ==
  /\ SignInFormShown /\ ~isSubmitting
  /\ Len(submits) < MaxSubmits
  /\ IF isRegistering /\ \E name \in ProfileFieldNames : profileFields[name] = ""
     THEN /\ authError' = Str("Please complete all profile fields.")
          /\ isSubmitting' = FALSE
          /\ submits' = Append(submits,
               [ SubmitFrame("done", isRegistering, profileFields)
                   EXCEPT !.outcome = "failed" ])
     ELSE /\ authError' = Null
          /\ isSubmitting' = TRUE
          /\ submits' = Append(submits,
               SubmitFrame(IF isRegistering THEN "createUser" ELSE "signIn",
                           isRegistering, profileFields))
  /\ UNCHANGED << userProfileDoc, account, authEvents, stage, gateUser,
                  authForm, callbacks >>

\* Line 259: createUserWithEmailAndPassword; success signs the user in.
CreateUser(h) ==
  /\ submits[h].pc = "createUser"
  /\ \/ /\ ~account
        /\ account' = TRUE
        /\ authEvents' = Append(authEvents, user.uid)
        /\ submits' = [submits EXCEPT ![h].pc = "createUserProfile"]
        /\ UNCHANGED << isSubmitting, authError >>
     \/ /\ \E err \in AuthErrors : SubmitCatch(h, err)
        /\ UNCHANGED << account, authEvents >>
  /\ UNCHANGED << userProfileDoc, stage, gateUser, authForm, callbacks >>

\* Lines 260-262 and 233-245: createUserProfile, then the success path.
CreateUserProfile(h) ==
  /\ submits[h].pc = "createUserProfile"
  /\ \E o \in PatchOutcomes :
       /\ SetDoc(ProfileDocument(submits[h].fields), o)
       /\ IF o = "ok"
          THEN /\ ResetFormState
               /\ stage' = "authenticated"
               /\ isSubmitting' = FALSE
               /\ submits' = [submits EXCEPT ![h].pc = "done",
                                             ![h].outcome = "registered"]
               /\ UNCHANGED << authError, isRegistering >>
          ELSE /\ SubmitCatch(h, PatchError(o))
               /\ UNCHANGED << stage, authForm >>
  /\ UNCHANGED << account, authEvents, gateUser, callbacks >>

\* Lines 264-265: signInWithEmailAndPassword.
SignIn(h) ==
  /\ submits[h].pc = "signIn"
  /\ \/ /\ account
        /\ authEvents' = Append(authEvents, user.uid)
        /\ ResetFormState
        /\ isSubmitting' = FALSE
        /\ submits' = [submits EXCEPT ![h].pc = "done",
                                      ![h].outcome = "signed-in"]
        /\ UNCHANGED << authError, isRegistering >>
     \/ /\ \E err \in AuthErrors : SubmitCatch(h, err)
        /\ UNCHANGED << authEvents, authForm >>
  /\ UNCHANGED << userProfileDoc, account, stage, gateUser, callbacks >>

\* Lines 198-209: the listener, up to await getDoc.
OnAuthStateChanged ==
  /\ authEvents # << >>
  /\ authEvents' = Tail(authEvents)
  /\ IF Head(authEvents) = NoUser
     THEN /\ stage' = "sign-in"
          /\ gateUser' = NoUser
          /\ isRegistering' = FALSE
          /\ profileFields' = EmptyProfileFields
          /\ callbacks' = Append(callbacks, CallbackFrame("done", NoUser))
     ELSE /\ gateUser' = Head(authEvents)
          /\ callbacks' =
               Append(callbacks, CallbackFrame("getDoc", Head(authEvents)))
          /\ UNCHANGED << stage, isRegistering, profileFields >>
  /\ UNCHANGED << userProfileDoc, account, isSubmitting, authError, email,
                  password, submits >>

\* Lines 211-214.
CallbackCatch(c, err) ==
  /\ authError' = Str(AuthErrorMessage(err))
  /\ stage' = "sign-in"
  /\ gateUser' = NoUser
  /\ callbacks' = [callbacks EXCEPT ![c].pc = "done"]

\* Lines 188-190 and 210.
EnsureGetDoc(c) ==
  /\ callbacks[c].pc = "getDoc"
  /\ \/ /\ userProfileDoc.exists
        /\ stage' = "authenticated"
        /\ callbacks' = [callbacks EXCEPT ![c].pc = "done"]
        /\ UNCHANGED << gateUser, authError >>
     \/ /\ ~userProfileDoc.exists
        /\ callbacks' = [callbacks EXCEPT ![c].pc = "setDoc"]
        /\ UNCHANGED << stage, gateUser, authError >>
     \/ \E err \in GetDocErrors : CallbackCatch(c, err)
  /\ UNCHANGED << userProfileDoc, account, authEvents, isSubmitting, authForm,
                  submits >>

\* Lines 191-193 and 210.
EnsureSetDoc(c) ==
  /\ callbacks[c].pc = "setDoc"
  /\ \E o \in PatchOutcomes :
       /\ SetDoc(PlaceholderDocument, o)
       /\ IF o = "ok"
          THEN /\ stage' = "authenticated"
               /\ callbacks' = [callbacks EXCEPT ![c].pc = "done"]
               /\ UNCHANGED << gateUser, authError >>
          ELSE CallbackCatch(c, PatchError(o))
  /\ UNCHANGED << account, authEvents, isSubmitting, authForm, submits >>

elsewhereOfAuth ==
  << ui, crackImages, subs, calls, writes, localModel, service, documentsPage >>

NextAuth ==
  \/ \E value \in BOOLEAN : SetIsRegistering(value) /\ UNCHANGED elsewhereOfAuth
  \/ \E value \in EmailInputs : SetEmail(value) /\ UNCHANGED elsewhereOfAuth
  \/ \E value \in PasswordInputs : SetPassword(value) /\ UNCHANGED elsewhereOfAuth
  \/ \E name \in ProfileFieldNames : \E value \in ProfileInputs[name] :
       SetProfileField(name, value) /\ UNCHANGED elsewhereOfAuth
  \/ HandleSubmit /\ UNCHANGED elsewhereOfAuth
  \/ \E h \in Submits : CreateUser(h) /\ UNCHANGED elsewhereOfAuth
  \/ \E h \in Submits : CreateUserProfile(h) /\ UNCHANGED elsewhereOfAuth
  \/ \E h \in Submits : SignIn(h) /\ UNCHANGED elsewhereOfAuth
  \/ OnAuthStateChanged /\ UNCHANGED elsewhereOfAuth
  \/ \E c \in Callbacks : EnsureGetDoc(c) /\ UNCHANGED elsewhereOfAuth
  \/ \E c \in Callbacks : EnsureSetDoc(c) /\ UNCHANGED elsewhereOfAuth

SpecAuth == Init /\ [][NextAuth]_vars

(***************************************************************************)
(* C29. After handleSubmit with isRegistering has completed successfully,  *)
(* the user's profile document holds the department, studentOrStaffId and  *)
(* role that were submitted (trimmed), under every interleaving with the   *)
(* onAuthStateChanged callback's ensureUserProfileDocument.                *)
(***************************************************************************)
ProfileHolds(document, fields) ==
  /\ document.exists
  /\ \A name \in ProfileFieldNames :
       /\ name \in DOMAIN document.data
       /\ document.data[name] = Trim(fields[name])

C29_RegisteredProfileHoldsSubmittedFields ==
  \A h \in Submits :
    submits[h].outcome = "registered" =>
      ProfileHolds(userProfileDoc, submits[h].fields)
====
